---- MODULE Spec2Model ----
(***************************************************************************)
(* Download-and-extract pipeline of the payments-mcp installer:            *)
(*   HttpUtils.executeWithRetry / get / head / downloadFile                 *)
(*   DownloadService.downloadAndExtract / extractZip / extractEntry         *)
(*   FileUtils.ensureDir / removeDir / cleanupTemp                          *)
(*   DownloadService.validateDownload, PaymentsMCPInstaller.uninstall,       *)
(*   ConfigService.autoConfigureFile                                        *)
(* Strings are sequences of one-character strings; NUL stands for '\0'.    *)
(* Paths follow the POSIX rules of Node's path module.                      *)
(***************************************************************************)
EXTENDS Integers, Sequences, FiniteSets, TLC

\* ------------------------------------------------------------------ bounds
MaxSegs == 2        \* segments per archive entry name
MaxEntries == 2     \* entries delivered by one archive
MaxRetries == 3     \* largest `retries` option a caller passes
BodyLen == 2        \* bytes in one response body
MaxRuns == 2        \* calls of autoConfigureFile on one config file
MaxClock == 2       \* values Date.now() takes
MaxInstalls == 2    \* calls of install() on one machine
MaxVersion == 2     \* released versions
MaxTicks == 3       \* clock ticks within the command timeout
MaxOutput == 2      \* chunks the child writes to stderr
MaxFsCalls == 3     \* ensureDir and removeDir calls on one FileUtils

\* ------------------------------------------------------- program constants
DefaultRetries == 3
CommandTimeout == 300000       \* 5 * 60 * 1000 milliseconds
DefaultRetryDelay == 1000

\* ----------------------------------------------------------------- strings
NUL == "NUL"
SLASH == "/"
DOT == "."

RECURSIVE StartsWith(_, _)
StartsWith(s, pre) ==
  IF pre = <<>> THEN TRUE
  ELSE IF s = <<>> THEN FALSE
  ELSE Head(s) = Head(pre) /\ StartsWith(Tail(s), Tail(pre))

EndsWith(s, c) == Len(s) > 0 /\ s[Len(s)] = c

RECURSIVE Includes(_, _)
Includes(s, sub) ==
  IF StartsWith(s, sub) THEN TRUE
  ELSE IF s = <<>> THEN FALSE
  ELSE Includes(Tail(s), sub)

\* String.prototype.split('/'): always at least one (possibly empty) segment
RECURSIVE SplitAcc(_, _, _)
SplitAcc(s, cur, acc) ==
  IF s = <<>> THEN Append(acc, cur)
  ELSE IF Head(s) = SLASH THEN SplitAcc(Tail(s), <<>>, Append(acc, cur))
  ELSE SplitAcc(Tail(s), Append(cur, Head(s)), acc)

Split(s) == SplitAcc(s, <<>>, <<>>)

\* Array.prototype.join('/')
RECURSIVE JoinSlash(_)
JoinSlash(segs) ==
  IF segs = <<>> THEN <<>>
  ELSE IF Len(segs) = 1 THEN segs[1]
  ELSE segs[1] \o <<SLASH>> \o JoinSlash(Tail(segs))

\* ------------------------------------------------------ path (POSIX rules)
isAbsolute(p) == StartsWith(p, <<SLASH>>)

\* normalizeString of Node's path module: resolves '.', '..' and empty segments
RECURSIVE NormalizeSegs(_, _, _)
NormalizeSegs(segs, res, allowAboveRoot) ==
  IF segs = <<>> THEN res
  ELSE LET h == Head(segs) t == Tail(segs) IN
    IF h = <<>> \/ h = <<DOT>> THEN NormalizeSegs(t, res, allowAboveRoot)
    ELSE IF h = <<DOT, DOT>> THEN
      IF Len(res) > 0 /\ res[Len(res)] # <<DOT, DOT>>
        THEN NormalizeSegs(t, SubSeq(res, 1, Len(res) - 1), allowAboveRoot)
      ELSE IF allowAboveRoot THEN NormalizeSegs(t, Append(res, h), allowAboveRoot)
      ELSE NormalizeSegs(t, res, allowAboveRoot)
    ELSE NormalizeSegs(t, Append(res, h), allowAboveRoot)

PathNormalize(p) ==
  IF p = <<>> THEN <<DOT>>
  ELSE LET abs == isAbsolute(p)
           trail == EndsWith(p, SLASH)
           body == JoinSlash(NormalizeSegs(Split(p), <<>>, ~abs))
       IN IF body = <<>>
            THEN (IF abs THEN <<SLASH>> ELSE IF trail THEN <<DOT, SLASH>> ELSE <<DOT>>)
            ELSE (IF abs THEN <<SLASH>> ELSE <<>>) \o body \o (IF trail THEN <<SLASH>> ELSE <<>>)

\* path.join(a, b): the non-empty arguments joined by '/', then normalized
PathJoin(a, b) ==
  LET joined == IF a = <<>> THEN b
                ELSE IF b = <<>> THEN a
                ELSE a \o <<SLASH>> \o b
  IN PathNormalize(joined)

\* path.dirname
RECURSIVE StripTrailingSlashes(_)
StripTrailingSlashes(p) ==
  IF Len(p) > 1 /\ EndsWith(p, SLASH) THEN StripTrailingSlashes(SubSeq(p, 1, Len(p) - 1))
  ELSE p

RECURSIVE LastSlash(_, _)
LastSlash(p, i) ==
  IF i = 0 THEN 0 ELSE IF p[i] = SLASH THEN i ELSE LastSlash(p, i - 1)

Dirname(p) ==
  IF p = <<>> THEN <<DOT>>
  ELSE LET q == StripTrailingSlashes(p)
           k == LastSlash(q, Len(q))
       IN IF k = 0 THEN <<DOT>>
          ELSE IF k = 1 THEN <<SLASH>>
          ELSE StripTrailingSlashes(SubSeq(q, 1, k - 1))

\* ------------------------------------------- DownloadService path checks
\* the predicate of the filter in sanitizeEntryPath
KeepSegment(segment) ==
  segment # <<>> /\ segment # <<DOT>> /\ segment # <<DOT, DOT>>

RECURSIVE FilterSegs(_)
FilterSegs(segs) ==
  IF segs = <<>> THEN <<>>
  ELSE IF KeepSegment(Head(segs)) THEN <<Head(segs)>> \o FilterSegs(Tail(segs))
  ELSE FilterSegs(Tail(segs))

sanitizeEntryPath(entryPath) == JoinSlash(FilterSegs(Split(entryPath)))

isUnsafePath(entryPath) ==
  \/ Includes(entryPath, <<DOT, DOT>>)
  \/ StartsWith(entryPath, <<SLASH>>)
  \/ Includes(entryPath, <<NUL>>)
  \/ isAbsolute(entryPath)

\* a plausible slip: the raw entry name is joined instead of the sanitized one
EntryFullPathRaw(extractPath, fileName) == PathJoin(extractPath, fileName)

\* extractEntry: const fullPath = path.join(extractPath, entryPath)
EntryFullPath(extractPath, fileName) ==
  PathJoin(extractPath, sanitizeEntryPath(fileName))

\* extractEntry: the guard that throws 'Unsafe file path detected in ZIP'
EntryRejected(extractPath, fileName) ==
  \/ isUnsafePath(sanitizeEntryPath(fileName))
  \/ ~StartsWith(EntryFullPath(extractPath, fileName), extractPath)

IsDirectoryEntry(fileName) == EndsWith(fileName, SLASH)

\* ------------------------------------------------------ archive entry names
SegAlphabet ==
  { <<>>, <<DOT>>, <<DOT, DOT>>, <<"a">>, <<"r", "a">>, <<NUL>>, <<"a", DOT, DOT>> }

EntryNames ==
  { JoinSlash(ss) : ss \in UNION { [1..n -> SegAlphabet] : n \in 1..MaxSegs } }

\* what the claims call an unsafe raw name
HasDotDotSegment(raw) == \E i \in 1..Len(Split(raw)) : Split(raw)[i] = <<DOT, DOT>>
RawNameUnsafe(raw) ==
  HasDotDotSegment(raw) \/ StartsWith(raw, <<SLASH>>) \/ Includes(raw, <<NUL>>)

\* the destination root and the paths lexically inside it
Root == <<SLASH, "r">>
IsUnderRoot(p) == p = Root \/ StartsWith(p, Root \o <<SLASH>>)

\* ------------------------------------------------------------------- state
VARIABLES
  \* HttpUtils.executeWithRetry
  op,             \* "get" | "head" | "download" | "none": which method is running
  retries,        \* opts.retries
  retryDelay,     \* opts.retryDelay
  attempt,        \* the loop variable
  hpc,            \* position: idle, loop, request, streaming, sleeping, returned, thrown
  calls,          \* number of invocations of operation()
  results,        \* outcome of each invocation, in order: "ok" or an error kind
  sleeps,         \* the delays passed to sleep(), in order
  lastError,      \* the variable lastError
  thrown,         \* the error executeWithRetry threw
  returned,       \* the attempt whose result executeWithRetry returned, 0 if none
  \* HttpUtils.downloadFile
  totalLength,    \* parseInt(response.headers['content-length'] || '0', 10)
  progress,       \* the event last passed to onProgress, NoProgress if none
  written,        \* bytes of the current response piped so far (transferredLength)
  wsOpen,         \* the current write stream has the destination file open
  tmpFile,        \* the file at filePath: Absent or [att, len]
  pendingUnlinks, \* fs.unlink(filePath) calls started and not yet completed
  \* the file system below the root directory, and FileUtils
  dirs,           \* the directories that exist
  files,          \* the regular files that exist (other than the temp file)
  ensuredDirs,    \* FileUtils.ensuredDirs
  \* DownloadService.extractZip
  zpc,            \* position: idle, opening, reading, openingStream, piping, closed
  zPromise,       \* the promise extractZip returned: none, pending, resolved, rejected
  zError,         \* the error it rejected with
  cur,            \* entry.fileName of the entry last delivered
  target,         \* fullPath of the entry last delivered
  entriesRead,    \* 'entry' events delivered
  extractedCount, \* the variable extractedCount
  failedAt,       \* which entry (by order) made extractEntry reject, 0 if none
  openReads,      \* entry read streams obtained from openReadStream and not yet ended
  openWrites,     \* write streams created by extractEntry and not yet finished
  entries,        \* the entries extractEntry accepted, in order: [path, dir, unsafe]
  payloads,       \* what extractEntry wrote: [path, entry, complete] per file
  \* DownloadService.downloadAndExtract
  ppc,            \* position: none, start, download, extract, catch, finally, returned, threw
  tempZipPath,    \* tempZipPath is not null
  pError,         \* the error in flight, then the error thrown
  stageError,     \* the error that made the try block fail
  warned,         \* cleanupTemp logged its warning
  \* DownloadService.validateDownload
  vpc,            \* position: idle, exists, stat, opening, done
  vResult,        \* how the call settled: "none", "true", "false" or "threw"
  vWhy,           \* the branch that produced the result
  vOpened,        \* archives yauzl.open handed to the callback
  vClosed,        \* zipfile.close() calls
  \* PaymentsMCPInstaller.uninstall
  upc,            \* position: none, start, nodeModules, packageLock, cleaned, done, checked
  uInstalled,     \* isInstalled as uninstall read it: "none", "true" or "false"
  uRemoved,       \* the paths cleanupFailedInstallation removed
  uWarned,        \* cleanupFailedInstallation logged its warning
  uOutcome,       \* "none", "notInstalled", "completed" or "threw"
  uAfter,         \* isInstalled of the getInstallationStatus that follows
  \* ConfigService.autoConfigureFile
  cpc,            \* position: idle, start, exists, parse, backup, write, returned
  cClient,        \* what the registry says of mcpClient: "file", "cli" or "nopath"
  cRuns,          \* calls of autoConfigureFile started so far
  cfgFile,        \* the file at configPath
  cBefore,        \* the file at configPath when the current call started
  cRead,          \* fileContent
  cValue,         \* existingConfig
  cBackups,       \* content of each '.backup.<timestamp>' file, by timestamp
  cResult,        \* what the current call returned: "none", "true" or "false"
  cPrevOk,        \* the call before the current one returned true
  \* PaymentsMCPInstaller.install
  ipc,            \* position: idle, versions, preflight, decide, download, npm,
                  \* electron, verify, cleanup, post, failure, done
  iForce,         \* options.force
  iRuns,          \* calls of install started so far
  iInfo,          \* versionInfo as checkVersions returned it
  iDir,           \* what the install directory holds
  iStartDir,      \* what it held when the current call started
  iCalls,         \* the steps the current call has run, in order
  iOutcome,       \* "none", "returned" or "threw"
  iError,         \* the step or check whose error is being thrown
  iReported,      \* "none", "uptodate" or "completed"
  iExtracted,     \* downloadAndExtract succeeded in the current call
  iPrevFailed,    \* the call before failed after its extraction succeeded
  \* InstallService.executeCommand
  xpc,            \* idle or called
  xChild,         \* the child process: none, running, failed (not started), closed
  xTimer,         \* the 5-minute timer: none, armed, fired, cleared
  xElapsed,       \* clock ticks since the call
  xPromise,       \* the returned promise: none, pending, resolved, rejected
  xWhy,           \* what settled it: exit0, exit, spawnError, timeout
  xSignals,       \* the signals sent with child.kill
  xCode,          \* the code of the 'close' event
  xErrored,       \* the 'error' event was emitted
  xStderr,        \* chunks collected in stderr
  \* FileUtils.ensureDir and removeDir called directly
  fLast,          \* the last call: its name, its path and how it ended
  fCalls          \* calls made so far

retryVars == <<op, retries, retryDelay, attempt, hpc, calls, results, sleeps, lastError,
              thrown, returned>>
dlVars == <<totalLength, progress, written, wsOpen, tmpFile, pendingUnlinks>>
fsVars == <<dirs, files, ensuredDirs>>
zipVars == <<zpc, zPromise, zError, cur, target, entriesRead, extractedCount, failedAt,
            openReads, openWrites, entries, payloads>>
pipeVars == <<ppc, tempZipPath, pError, stageError, warned>>
valVars == <<vpc, vResult, vWhy, vOpened, vClosed>>
uninstVars == <<upc, uInstalled, uRemoved, uWarned, uOutcome, uAfter>>
cfgVars == <<cpc, cClient, cRuns, cfgFile, cBefore, cRead, cValue, cBackups, cResult, cPrevOk>>
coreVars == <<retryVars, dlVars, fsVars, zipVars, pipeVars, valVars, uninstVars>>
instVars == <<ipc, iForce, iRuns, iInfo, iDir, iStartDir, iCalls, iOutcome, iError,
             iReported, iExtracted, iPrevFailed>>
execVars == <<xpc, xChild, xTimer, xElapsed, xPromise, xWhy, xSignals, xCode, xErrored,
             xStderr>>
fuVars == <<fLast, fCalls>>
moreVars == <<cfgVars, instVars, execVars, fuVars>>
vars == <<coreVars, moreVars>>

Absent == [att |-> 0, len |-> 0 - 1]
Undefined == [kind |-> "undefined", att |-> 0]
Err(kind, att) == [kind |-> kind, att |-> att]
NoError == [kind |-> "none"]
NamedErr(kind, name) == [kind |-> kind, name |-> name]

RequestErrorKinds == {"network", "http4xx", "http5xx"}
RetryDelays == {DefaultRetryDelay, 250}

\* ------------------------------------------- MCP client config file content
\* the server names and commands a config file may hold
ServerNames == {"payments-mcp", "other"}
NewCommand == "new"
Commands == {NewCommand, "old", "x"}

\* every mcpServers object: a map from some server names to commands
ServerMaps == UNION { [D -> Commands] : D \in SUBSET ServerNames }

\* what config.mcpServers can be after JSON.parse
ServersValues ==
  {[t |-> "missing"], [t |-> "prim"], [t |-> "array"]}
    \cup { [t |-> "map", m |-> m] : m \in ServerMaps }

\* what JSON.parse can return: null, a number or string, an array, or an
\* object with or without another top-level key
JsonValues ==
  {[t |-> "null"], [t |-> "prim"], [t |-> "array"]}
    \cup { [t |-> "object", extra |-> e, servers |-> sv] :
             e \in BOOLEAN, sv \in ServersValues }

\* what the file at configPath can be: absent, text that is not JSON, or JSON
\* text, laid out as JSON.stringify(value, null, 2) lays it out or otherwise
NoFile == [kind |-> "absent"]
Garbage == [kind |-> "garbage"]
JsonText(value, canonical) == [kind |-> "json", value |-> value, canonical |-> canonical]
ConfigFiles ==
  {NoFile, Garbage} \cup { JsonText(v, c) : v \in JsonValues, c \in BOOLEAN }

\* JSON.stringify(value, null, 2)
Stringify(value) == JsonText(value, TRUE)

\* { mcpServers: {} }
EmptyConfig == [t |-> "object", extra |-> FALSE, servers |-> [t |-> "map", m |-> <<>>]]

NoValue == [t |-> "none"]

ConfigIdle ==
  /\ cpc = "idle"
  /\ cClient = "file"
  /\ cRuns = 0
  /\ cfgFile = NoFile
  /\ cBefore = NoFile
  /\ cRead = NoFile
  /\ cValue = NoValue
  /\ cBackups = <<>>
  /\ cResult = "none"
  /\ cPrevOk = FALSE

\* ---------------------------------------------------------------------------
\* PaymentsMCPInstaller.install: versions and the install directory
\* ---------------------------------------------------------------------------

\* Versions are numbered in their semver order.
Versions == 1..MaxVersion
NoVersion == 0           \* null: no local version, no answer of the version API
NoVersionField == -1     \* a package.json without a version field
Latest == -2             \* the placeholder 'latest' of getVersionInfo

\* What the install directory holds: the version in package.json, the state of
\* node_modules ("none", "plain": without electron, "electron": electron without
\* install.js, "script": electron with install.js), package-lock.json and the
\* extracted application files.
PackageStates == {NoVersion, NoVersionField} \cup Versions
ModuleStates == {"none", "plain", "electron", "script"}
NotInstalledDir ==
  [exists |-> FALSE, pkg |-> NoVersion, nm |-> "none", lock |-> FALSE, app |-> FALSE]
InstalledDirsAtStart ==
  {[exists |-> TRUE, pkg |-> v, nm |-> m, lock |-> l, app |-> TRUE] :
     v \in Versions, m \in {"electron", "script"}, l \in BOOLEAN}
StartDirs == {NotInstalledDir} \cup InstalledDirsAtStart
NoInfo == [local |-> NoVersion, remote |-> NoVersion, needsUpdate |-> FALSE]

InstallIdle ==
  /\ ipc = "idle"
  /\ iForce = FALSE
  /\ iRuns = 0
  /\ iInfo = NoInfo
  /\ iDir = NotInstalledDir
  /\ iStartDir = NotInstalledDir
  /\ iCalls = <<>>
  /\ iOutcome = "none"
  /\ iError = "none"
  /\ iReported = "none"
  /\ iExtracted = FALSE
  /\ iPrevFailed = FALSE

\* ---------------------------------------------------------------------------
\* InstallService.executeCommand: the child process, the timer, the promise
\* ---------------------------------------------------------------------------

\* The clock advances in steps of TickMs milliseconds.
TickMs == CommandTimeout \div MaxTicks
NoCode == -1             \* no close event yet
SignalCode == -2         \* close with code null: the child was ended by a signal
SpawnFailedCode == -3    \* close after the child could not be started
ExitCodes == {0, 1, SignalCode}

ExecIdle ==
  /\ xpc = "idle"
  /\ xChild = "none"
  /\ xTimer = "none"
  /\ xElapsed = 0
  /\ xPromise = "none"
  /\ xWhy = "none"
  /\ xSignals = <<>>
  /\ xCode = NoCode
  /\ xErrored = FALSE
  /\ xStderr = 0

NoCall == [op |-> "none", path |-> <<>>, result |-> "none"]

FileUtilsIdle ==
  /\ fLast = NoCall
  /\ fCalls = 0

MoreIdle ==
  /\ ConfigIdle
  /\ InstallIdle
  /\ ExecIdle
  /\ FileUtilsIdle

\* ------------------------------------------------- HttpUtils.executeWithRetry
RECURSIVE Pow2(_)
Pow2(n) == IF n <= 0 THEN 1 ELSE 2 * Pow2(n - 1)

\* the exponent off by one
BackoffDelayFromTwo(delay, att) == delay * Pow2(att)

\* opts.retryDelay * Math.pow(2, attempt - 1)
BackoffDelay(delay, att) == delay * Pow2(att - 1)

\* the loop bound off by one
LoopCondStrict(att, n) == att < n

\* for (...; attempt <= opts.retries; ...)
LoopCond(att, n) == att <= n

\* if (attempt === opts.retries) throw lastError
IsLastAttempt(att, n) == att = n

\* the catch block of the loop, entered with the error of the current attempt
Catch(error) ==
  /\ lastError' = error
  /\ results' = Append(results, error.kind)
  /\ IF IsLastAttempt(attempt, retries)
       THEN /\ thrown' = error
            /\ hpc' = "thrown"
            /\ sleeps' = sleeps
       ELSE /\ sleeps' = Append(sleeps, BackoffDelay(retryDelay, attempt))
            /\ hpc' = "sleeping"
            /\ thrown' = thrown
  /\ UNCHANGED <<op, retries, retryDelay, attempt, calls, returned>>

\* `await operation()` with the `return` missing: the loop goes on
ReturnMissing ==
  /\ results' = Append(results, "ok")
  /\ attempt' = attempt + 1
  /\ hpc' = "loop"
  /\ UNCHANGED <<op, retries, retryDelay, calls, sleeps, lastError, thrown, returned>>

\* return await operation(), the operation having resolved
Return ==
  /\ results' = Append(results, "ok")
  /\ returned' = attempt
  /\ hpc' = "returned"
  /\ UNCHANGED <<op, retries, retryDelay, attempt, calls, sleeps, lastError, thrown>>

\* the loop test holds: operation() is invoked (axios.get / axios.head is sent)
Call ==
  /\ hpc = "loop"
  /\ LoopCond(attempt, retries)
  /\ calls' = calls + 1
  /\ hpc' = "request"
  /\ UNCHANGED <<op, retries, retryDelay, attempt, results, sleeps, lastError, thrown, returned>>
  /\ UNCHANGED <<dlVars, fsVars, zipVars, pipeVars>>
  /\ UNCHANGED <<valVars, uninstVars>>
  /\ UNCHANGED moreVars

\* the loop test fails: throw lastError! after the loop
LoopExit ==
  /\ hpc = "loop"
  /\ ~LoopCond(attempt, retries)
  /\ thrown' = lastError
  /\ hpc' = "thrown"
  /\ UNCHANGED <<op, retries, retryDelay, attempt, calls, results, sleeps, lastError, returned>>
  /\ UNCHANGED <<dlVars, fsVars, zipVars, pipeVars>>
  /\ UNCHANGED <<valVars, uninstVars>>
  /\ UNCHANGED moreVars

\* the sleep timer fires; attempt++
SleepDone ==
  /\ hpc = "sleeping"
  /\ attempt' = attempt + 1
  /\ hpc' = "loop"
  /\ UNCHANGED <<op, retries, retryDelay, calls, results, sleeps, lastError, thrown, returned>>
  /\ UNCHANGED <<dlVars, fsVars, zipVars, pipeVars>>
  /\ UNCHANGED <<valVars, uninstVars>>
  /\ UNCHANGED moreVars

\* axios.get / axios.head rejects (network error, timeout, non-2xx status)
RequestFails ==
  /\ hpc = "request"
  /\ \E kind \in RequestErrorKinds : Catch(Err(kind, attempt))
  /\ UNCHANGED <<dlVars, fsVars, zipVars, pipeVars>>
  /\ UNCHANGED <<valVars, uninstVars>>
  /\ UNCHANGED moreVars

\* get / head: the response arrives and the operation resolves with it
RequestSucceeds ==
  /\ hpc = "request"
  /\ op \in {"get", "head"}
  /\ Return
  /\ UNCHANGED <<dlVars, fsVars, zipVars, pipeVars>>
  /\ UNCHANGED <<valVars, uninstVars>>
  /\ UNCHANGED moreVars

\* ------------------------------------------------------ HttpUtils.downloadFile
\* the Content-Length values a response may carry (0 also stands for a missing
\* header); the body itself has BodyLen bytes
ContentLengths == 0..(BodyLen + 1)

NoProgress == [transferred |-> 0, total |-> 0, percent |-> 0, sent |-> FALSE]

\* Math.round(x / y * 100) for x >= 0, y > 0
RoundPercent(x, y) == (2 * 100 * x + y) \div (2 * y)

\* the object the 'data' handler passes to onProgress
ProgressEvent(transferred, total) ==
  [transferred |-> transferred, total |-> total,
   percent |-> RoundPercent(transferred, total), sent |-> TRUE]

\* the response arrives; fs.createWriteStream(filePath) opens with flag 'w',
\* which creates or truncates the file, unless the open fails
ResponseArrives ==
  /\ hpc = "request"
  /\ op = "download"
  /\ hpc' = "streaming"
  /\ \E contentLength \in ContentLengths : totalLength' = contentLength
  /\ progress' = NoProgress
  /\ written' = 0
  /\ \E opened \in BOOLEAN :
       /\ wsOpen' = opened
       /\ tmpFile' = IF opened THEN [att |-> attempt, len |-> 0] ELSE tmpFile
  /\ UNCHANGED <<op, retries, retryDelay, attempt, calls, results, sleeps, lastError, thrown,
                 returned>>
  /\ UNCHANGED <<pendingUnlinks, fsVars, zipVars, pipeVars>>
  /\ UNCHANGED <<valVars, uninstVars>>
  /\ UNCHANGED moreVars

\* response.data 'data' and response.data.pipe(writeStream): one chunk is
\* counted, reported when totalLength > 0, and written through the open
\* descriptor; it lands in the file at filePath only while that file is still
\* the one this stream created
DataChunk ==
  /\ hpc = "streaming"
  /\ wsOpen
  /\ \E chunkLength \in 1..(BodyLen - written) :
       /\ written' = written + chunkLength
       /\ progress' = IF totalLength > 0
                        THEN ProgressEvent(written', totalLength)
                        ELSE progress
       /\ tmpFile' = IF tmpFile # Absent /\ tmpFile.att = attempt
                       THEN [tmpFile EXCEPT !.len = @ + chunkLength]
                       ELSE tmpFile
  /\ UNCHANGED totalLength
  /\ UNCHANGED retryVars
  /\ UNCHANGED <<wsOpen, pendingUnlinks, fsVars, zipVars, pipeVars>>
  /\ UNCHANGED <<valVars, uninstVars>>
  /\ UNCHANGED moreVars

\* writeStream 'finish': resolve()
Finish ==
  /\ hpc = "streaming"
  /\ wsOpen
  /\ written = BodyLen
  /\ Return
  /\ wsOpen' = FALSE
  /\ UNCHANGED <<totalLength, progress, written, tmpFile, pendingUnlinks, fsVars, zipVars, pipeVars>>
  /\ UNCHANGED <<valVars, uninstVars>>
  /\ UNCHANGED moreVars

\* response.data 'error': writeStream.destroy(); fs.unlink(filePath) is started
\* and not awaited; reject(error)
ResponseError ==
  /\ hpc = "streaming"
  /\ wsOpen' = FALSE
  /\ pendingUnlinks' = pendingUnlinks + 1
  /\ Catch(Err("stream", attempt))
  /\ UNCHANGED <<totalLength, progress, written, tmpFile, fsVars, zipVars, pipeVars>>
  /\ UNCHANGED <<valVars, uninstVars>>
  /\ UNCHANGED moreVars

\* writeStream 'error' (open or write failed): fs.unlink(filePath) is started
\* and not awaited; reject(error)
WriteStreamError ==
  /\ hpc = "streaming"
  /\ wsOpen' = FALSE
  /\ pendingUnlinks' = pendingUnlinks + 1
  /\ Catch(Err("filesystem", attempt))
  /\ UNCHANGED <<totalLength, progress, written, tmpFile, fsVars, zipVars, pipeVars>>
  /\ UNCHANGED <<valVars, uninstVars>>
  /\ UNCHANGED moreVars

\* a started fs.unlink(filePath) completes: it removes whatever file is at
\* filePath at that moment, or fails, which .catch(() => {}) swallows
UnlinkCompletes ==
  /\ pendingUnlinks > 0
  /\ pendingUnlinks' = pendingUnlinks - 1
  /\ \E ok \in BOOLEAN : tmpFile' = IF ok THEN Absent ELSE tmpFile
  /\ UNCHANGED retryVars
  /\ UNCHANGED <<totalLength, progress, written, wsOpen, fsVars, zipVars, pipeVars>>
  /\ UNCHANGED <<valVars, uninstVars>>
  /\ UNCHANGED moreVars

\* ----------------------------------------- HttpUtils called on its own
HttpIdle ==
  /\ attempt = 1
  /\ calls = 0
  /\ results = <<>>
  /\ sleeps = <<>>
  /\ lastError = Undefined
  /\ thrown = Undefined
  /\ returned = 0
  /\ totalLength = 0
  /\ progress = NoProgress
  /\ written = 0
  /\ wsOpen = FALSE
  /\ tmpFile = Absent
  /\ pendingUnlinks = 0

ZipIdle ==
  /\ zpc = "idle"
  /\ zPromise = "none"
  /\ zError = NoError
  /\ cur = <<>>
  /\ target = <<>>
  /\ entriesRead = 0
  /\ extractedCount = 0
  /\ failedAt = 0
  /\ openReads = 0
  /\ openWrites = 0
  /\ entries = <<>>
  /\ payloads = {}

PipeIdle ==
  /\ ppc = "none"
  /\ tempZipPath = FALSE
  /\ pError = NoError
  /\ stageError = NoError
  /\ warned = FALSE

ValidateIdle ==
  /\ vpc = "idle"
  /\ vResult = "none"
  /\ vWhy = "none"
  /\ vOpened = 0
  /\ vClosed = 0

UninstallIdle ==
  /\ upc = "none"
  /\ uInstalled = "none"
  /\ uRemoved = {}
  /\ uWarned = FALSE
  /\ uOutcome = "none"
  /\ uAfter = "none"

InitRetry ==
  /\ op \in {"get", "head", "download"}
  /\ retries \in 0..MaxRetries
  /\ retryDelay \in RetryDelays
  /\ hpc = "loop"
  /\ HttpIdle
  /\ dirs = {<<SLASH>>}
  /\ files = {}
  /\ ensuredDirs = {}
  /\ ZipIdle
  /\ PipeIdle
  /\ ValidateIdle
  /\ UninstallIdle
  /\ MoreIdle

\* the steps of a downloadFile call with retries >= 1
NextDownload ==
  \/ Call
  \/ SleepDone
  \/ RequestFails
  \/ ResponseArrives
  \/ DataChunk
  \/ Finish
  \/ ResponseError
  \/ WriteStreamError
  \/ UnlinkCompletes

\* the steps of a get, head or downloadFile call
NextRetry ==
  \/ NextDownload
  \/ LoopExit
  \/ RequestSucceeds

SpecRetry == InitRetry /\ [][NextRetry]_vars

\* ------------------------------------------------------------- file system
\* p and every directory above it, as fs.ensureDir (mkdir -p) walks them
AncestorsAndSelf(p) ==
  { IF i = 0 THEN <<SLASH>> ELSE SubSeq(p, 1, i) :
      i \in { j \in 0..Len(p) : j = Len(p) \/ p[j + 1] = SLASH } }

\* mkdir -p fails when a regular file is in the way
CanMkdir(p) == AncestorsAndSelf(p) \cap files = {}

\* open(p, 'w') needs an existing parent directory and no directory at p
CanOpenForWrite(p, ds) == p \notin ds /\ Dirname(p) \in ds

\* FileUtils.exists
Exists(p) == p \in dirs \/ p \in files

\* FileUtils.ensureDir(dirPath) returning normally: fs.ensureDir is called
\* only when dirPath is not yet in ensuredDirs
EnsureDirOk(dirPath) ==
  /\ dirPath \in ensuredDirs \/ CanMkdir(dirPath)
  /\ dirs' = IF dirPath \in ensuredDirs THEN dirs ELSE dirs \cup AncestorsAndSelf(dirPath)
  /\ ensuredDirs' = ensuredDirs \cup {dirPath}

\* FileUtils.ensureDir(dirPath) throwing 'Failed to create directory':
\* fs.ensureDir was called and rejected
EnsureDirThrows(dirPath) ==
  /\ dirPath \notin ensuredDirs
  /\ UNCHANGED <<dirs, ensuredDirs>>

\* -------------------------------------------- DownloadService.extractZip
\* the catch block of the 'entry' handler without close and reject: the
\* failed entry is skipped and the next one is requested
EntryFailsSkipped(error) ==
  /\ zpc' = "reading"
  /\ failedAt' = entriesRead'
  /\ UNCHANGED <<zPromise, zError, extractedCount>>

\* the catch block of the 'entry' handler: zipfile.close(); reject(error)
EntryFails(error) ==
  /\ zpc' = "closed"
  /\ zPromise' = "rejected"
  /\ zError' = error
  /\ failedAt' = entriesRead'
  /\ UNCHANGED extractedCount

\* extractEntry resolved: extractedCount++; zipfile.readEntry()
EntryDone ==
  /\ extractedCount' = extractedCount + 1
  /\ zpc' = "reading"
  /\ UNCHANGED <<zPromise, zError, failedAt>>

\* yauzl.open calls back with an error or without a zipfile: reject
ZipOpenFails ==
  /\ zpc = "opening"
  /\ zpc' = "closed"
  /\ zPromise' = "rejected"
  /\ zError' = NamedErr("OpenFailed", <<>>)
  /\ UNCHANGED <<cur, target, entriesRead, extractedCount, failedAt>>
  /\ UNCHANGED <<openReads, openWrites, entries, payloads>>
  /\ UNCHANGED <<retryVars, dlVars, fsVars, pipeVars>>
  /\ UNCHANGED <<valVars, uninstVars>>
  /\ UNCHANGED moreVars

\* yauzl.open calls back with the zipfile (the file is there and complete):
\* the handlers are registered and zipfile.readEntry() is called
ZipOpens ==
  /\ zpc = "opening"
  /\ tmpFile # Absent /\ tmpFile.len = BodyLen
  /\ zpc' = "reading"
  /\ UNCHANGED <<zPromise, zError, cur, target, entriesRead, extractedCount, failedAt>>
  /\ UNCHANGED <<openReads, openWrites, entries, payloads>>
  /\ UNCHANGED <<retryVars, dlVars, fsVars, pipeVars>>
  /\ UNCHANGED <<valVars, uninstVars>>
  /\ UNCHANGED moreVars

\* 'entry' with a name the guard of extractEntry rejects
EntryUnsafe ==
  /\ zpc = "reading"
  /\ entriesRead < MaxEntries
  /\ \E name \in EntryNames :
       /\ EntryRejected(Root, name)
       /\ cur' = name
       /\ target' = EntryFullPath(Root, name)
       /\ entriesRead' = entriesRead + 1
       /\ EntryFails(NamedErr("UnsafePath", name))
  /\ UNCHANGED <<openReads, openWrites, entries, payloads>>
  /\ UNCHANGED <<retryVars, dlVars, fsVars, pipeVars>>
  /\ UNCHANGED <<valVars, uninstVars>>
  /\ UNCHANGED moreVars

\* 'entry' with an accepted name that ends with '/': ensureDir(fullPath)
EntryDirectory ==
  /\ zpc = "reading"
  /\ entriesRead < MaxEntries
  /\ \E name \in EntryNames :
       /\ ~EntryRejected(Root, name)
       /\ IsDirectoryEntry(name)
       /\ cur' = name
       /\ target' = EntryFullPath(Root, name)
       /\ entriesRead' = entriesRead + 1
       /\ entries' = Append(entries, [path |-> target', dir |-> TRUE,
                                    unsafe |-> RawNameUnsafe(name)])
       /\ \/ EnsureDirOk(target') /\ EntryDone
          \/ EnsureDirThrows(target') /\ EntryFails(NamedErr("EnsureDirFailed", target'))
  /\ UNCHANGED <<files>>
  /\ UNCHANGED <<openReads, openWrites, payloads>>
  /\ UNCHANGED <<retryVars, dlVars, pipeVars>>
  /\ UNCHANGED <<valVars, uninstVars>>
  /\ UNCHANGED moreVars

\* 'entry' with an accepted name of a file: zipfile.openReadStream(entry, ...)
EntryFile ==
  /\ zpc = "reading"
  /\ entriesRead < MaxEntries
  /\ \E name \in EntryNames :
       /\ ~EntryRejected(Root, name)
       /\ ~IsDirectoryEntry(name)
       /\ cur' = name
       /\ target' = EntryFullPath(Root, name)
       /\ entries' = Append(entries, [path |-> target', dir |-> FALSE,
                                    unsafe |-> RawNameUnsafe(name)])
  /\ entriesRead' = entriesRead + 1
  /\ zpc' = "openingStream"
  /\ UNCHANGED <<zPromise, zError, extractedCount, failedAt>>
  /\ UNCHANGED <<openReads, openWrites, payloads>>
  /\ UNCHANGED <<retryVars, dlVars, fsVars, pipeVars>>
  /\ UNCHANGED <<valVars, uninstVars>>
  /\ UNCHANGED moreVars

\* openReadStream calls back with an error or without a stream: reject
StreamOpenFails ==
  /\ zpc = "openingStream"
  /\ entriesRead' = entriesRead
  /\ EntryFails(NamedErr("StreamOpenFailed", cur))
  /\ UNCHANGED <<cur, target>>
  /\ UNCHANGED <<openReads, openWrites, entries, payloads>>
  /\ UNCHANGED <<retryVars, dlVars, fsVars, pipeVars>>
  /\ UNCHANGED <<valVars, uninstVars>>
  /\ UNCHANGED moreVars

\* openReadStream calls back with the stream; ensureDir(dirname(fullPath))
\* throws: reject(error)
StreamOpenedDirFails ==
  /\ zpc = "openingStream"
  /\ EnsureDirThrows(Dirname(target))
  /\ entriesRead' = entriesRead
  /\ EntryFails(NamedErr("EnsureDirFailed", Dirname(target)))
  /\ UNCHANGED <<cur, target, files>>
  /\ openReads' = openReads + 1
  /\ UNCHANGED <<openWrites, entries, payloads>>
  /\ UNCHANGED <<retryVars, dlVars, pipeVars>>
  /\ UNCHANGED <<valVars, uninstVars>>
  /\ UNCHANGED moreVars

\* as StreamOpened, but extractEntry resolves as soon as the pipe is set up,
\* without waiting for 'finish'
StreamOpenedNoWait ==
  /\ zpc = "openingStream"
  /\ EnsureDirOk(Dirname(target))
  /\ CanOpenForWrite(target, dirs')
  /\ files' = files \cup {target}
  /\ openReads' = openReads + 1
  /\ openWrites' = openWrites + 1
  /\ payloads' = { w \in payloads : w.path # target }
                    \cup {[path |-> target, entry |-> entriesRead, complete |-> FALSE]}
  /\ EntryDone
  /\ UNCHANGED <<cur, target, entriesRead, entries>>
  /\ UNCHANGED <<retryVars, dlVars, pipeVars>>
  /\ UNCHANGED <<valVars, uninstVars>>
  /\ UNCHANGED moreVars

\* openReadStream calls back with the stream; the parent directory is ensured,
\* fs.createWriteStream(fullPath) opens the file and the entry is piped into it
StreamOpened ==
  /\ zpc = "openingStream"
  /\ EnsureDirOk(Dirname(target))
  /\ CanOpenForWrite(target, dirs')
  /\ files' = files \cup {target}
  /\ openReads' = openReads + 1
  /\ openWrites' = openWrites + 1
  /\ payloads' = { w \in payloads : w.path # target }
                    \cup {[path |-> target, entry |-> entriesRead, complete |-> FALSE]}
  /\ UNCHANGED entries
  /\ zpc' = "piping"
  /\ UNCHANGED <<zPromise, zError, cur, target, entriesRead, extractedCount, failedAt>>
  /\ UNCHANGED <<retryVars, dlVars, pipeVars>>
  /\ UNCHANGED <<valVars, uninstVars>>
  /\ UNCHANGED moreVars

\* as StreamOpened, but the write stream cannot open the file (or a write
\* fails): writeStream 'error', reject
StreamWriteFails ==
  /\ zpc \in {"openingStream", "piping"}
  /\ IF zpc = "openingStream"
       THEN EnsureDirOk(Dirname(target))
       ELSE UNCHANGED <<dirs, ensuredDirs>>
  /\ entriesRead' = entriesRead
  /\ EntryFails(NamedErr("WriteFailed", target))
  /\ UNCHANGED <<cur, target, files>>
  /\ IF zpc = "openingStream"
       THEN openReads' = openReads + 1 /\ openWrites' = openWrites
       ELSE openReads' = openReads /\ openWrites' = openWrites - 1
  /\ UNCHANGED <<entries, payloads>>
  /\ UNCHANGED <<retryVars, dlVars, pipeVars>>
  /\ UNCHANGED <<valVars, uninstVars>>
  /\ UNCHANGED moreVars

\* readStream 'error' while piping: reject
\* the read stream's 'error' with no listener for it: nothing rejects, and the
\* write stream is never ended
StreamReadFailsUnheard ==
  /\ zpc = "piping"
  /\ zpc' = "stalled"
  /\ openReads' = openReads - 1
  /\ UNCHANGED <<zPromise, zError, cur, target, entriesRead, extractedCount, failedAt>>
  /\ UNCHANGED <<openWrites, entries, payloads>>
  /\ UNCHANGED <<retryVars, dlVars, fsVars, pipeVars>>
  /\ UNCHANGED <<valVars, uninstVars>>
  /\ UNCHANGED moreVars

StreamReadFails ==
  /\ zpc = "piping"
  /\ entriesRead' = entriesRead
  /\ EntryFails(NamedErr("ReadFailed", cur))
  /\ UNCHANGED <<cur, target>>
  /\ openReads' = openReads - 1
  /\ UNCHANGED <<openWrites, entries, payloads>>
  /\ UNCHANGED <<retryVars, dlVars, fsVars, pipeVars>>
  /\ UNCHANGED <<valVars, uninstVars>>
  /\ UNCHANGED moreVars

\* writeStream 'finish': extractEntry resolves
StreamFinish ==
  /\ zpc = "piping"
  /\ EntryDone
  /\ UNCHANGED <<cur, target, entriesRead>>
  /\ openReads' = openReads - 1
  /\ openWrites' = openWrites - 1
  /\ payloads' = { IF w.path = target THEN [w EXCEPT !.complete = TRUE] ELSE w :
                      w \in payloads }
  /\ UNCHANGED entries
  /\ UNCHANGED <<retryVars, dlVars, fsVars, pipeVars>>
  /\ UNCHANGED <<valVars, uninstVars>>
  /\ UNCHANGED moreVars

\* 'end': the central directory is exhausted; resolve()
ZipEnd ==
  /\ zpc = "reading"
  /\ zpc' = "closed"
  /\ zPromise' = "resolved"
  /\ UNCHANGED <<zError, cur, target, entriesRead, extractedCount, failedAt>>
  /\ UNCHANGED <<openReads, openWrites, entries, payloads>>
  /\ UNCHANGED <<retryVars, dlVars, fsVars, pipeVars>>
  /\ UNCHANGED <<valVars, uninstVars>>
  /\ UNCHANGED moreVars

\* 'error' emitted by the archive reader: reject
ZipError ==
  /\ zpc = "reading"
  /\ zpc' = "closed"
  /\ zPromise' = "rejected"
  /\ zError' = NamedErr("ZipError", <<>>)
  /\ UNCHANGED <<cur, target, entriesRead, extractedCount, failedAt>>
  /\ UNCHANGED <<openReads, openWrites, entries, payloads>>
  /\ UNCHANGED <<retryVars, dlVars, fsVars, pipeVars>>
  /\ UNCHANGED <<valVars, uninstVars>>
  /\ UNCHANGED moreVars

NextZip ==
  \/ ZipOpenFails
  \/ ZipOpens
  \/ EntryUnsafe
  \/ EntryDirectory
  \/ EntryFile
  \/ StreamOpenFails
  \/ StreamOpenedDirFails
  \/ StreamOpened
  \/ StreamWriteFails
  \/ StreamReadFails
  \/ StreamFinish
  \/ ZipEnd
  \/ ZipError

\* extractZip(zipPath, Root) called on an archive file that is in place, with
\* the root directory in existence
InitExtract ==
  /\ op = "none"
  /\ retries = DefaultRetries
  /\ retryDelay = DefaultRetryDelay
  /\ hpc = "idle"
  /\ attempt = 1
  /\ calls = 0
  /\ results = <<>>
  /\ sleeps = <<>>
  /\ lastError = Undefined
  /\ thrown = Undefined
  /\ returned = 0
  /\ totalLength = 0
  /\ progress = NoProgress
  /\ written = 0
  /\ wsOpen = FALSE
  /\ tmpFile = [att |-> 1, len |-> BodyLen]
  /\ pendingUnlinks = 0
  /\ dirs = {<<SLASH>>, Root}
  /\ files = {}
  /\ ensuredDirs \in {{}, {Root}}
  /\ zpc = "opening"
  /\ zPromise = "pending"
  /\ zError = NoError
  /\ cur = <<>>
  /\ target = <<>>
  /\ entriesRead = 0
  /\ extractedCount = 0
  /\ failedAt = 0
  /\ openReads = 0
  /\ openWrites = 0
  /\ entries = <<>>
  /\ payloads = {}
  /\ PipeIdle
  /\ ValidateIdle
  /\ UninstallIdle
  /\ MoreIdle

SpecExtract == InitExtract /\ [][NextZip]_vars

\* The same with progress. yauzl.open calls back; the archive reader answers
\* each readEntry() (with 'end' or 'error' unless a further 'entry' comes first);
\* openReadStream calls back; and every stream that was opened finishes or emits
\* an error.
ExtractFairness ==
  /\ WF_vars(ZipOpenFails \/ ZipOpens)
  /\ WF_vars(ZipEnd \/ ZipError)
  /\ WF_vars(StreamOpenFails \/ StreamOpenedDirFails \/ StreamOpened)
  /\ WF_vars(StreamWriteFails \/ StreamReadFails \/ StreamFinish)

SpecExtractLive == InitExtract /\ [][NextZip]_vars /\ ExtractFairness

\* what ensuredDirs can hold after a downloadAndExtract that failed and whose
\* catch block removed the root: removeDir leaves the set as it is
StaleCaches == { {Root}, {Root, Root \o <<SLASH, "a">>} }

\* extractZip(zipPath, Root) called by a second downloadAndExtract on the same
\* DownloadService after such a failure: ensureDir(Root) found Root in
\* ensuredDirs and created nothing
InitExtractAgain ==
  /\ op = "none"
  /\ retries = DefaultRetries
  /\ retryDelay = DefaultRetryDelay
  /\ hpc = "idle"
  /\ attempt = 1
  /\ calls = 0
  /\ results = <<>>
  /\ sleeps = <<>>
  /\ lastError = Undefined
  /\ thrown = Undefined
  /\ returned = 0
  /\ totalLength = 0
  /\ progress = NoProgress
  /\ written = 0
  /\ wsOpen = FALSE
  /\ tmpFile = [att |-> 1, len |-> BodyLen]
  /\ pendingUnlinks = 0
  /\ dirs = {<<SLASH>>}
  /\ files = {}
  /\ ensuredDirs \in StaleCaches
  /\ zpc = "opening"
  /\ zPromise = "pending"
  /\ zError = NoError
  /\ cur = <<>>
  /\ target = <<>>
  /\ entriesRead = 0
  /\ extractedCount = 0
  /\ failedAt = 0
  /\ openReads = 0
  /\ openWrites = 0
  /\ entries = <<>>
  /\ payloads = {}
  /\ PipeIdle
  /\ ValidateIdle
  /\ UninstallIdle
  /\ MoreIdle

SpecExtractAgain == InitExtractAgain /\ [][NextZip]_vars

\* ------------------------------------ DownloadService.downloadAndExtract
\* the frame of executeWithRetry is gone once its caller has its outcome
HttpFrameDropped ==
  /\ op' = "none"
  /\ hpc' = "idle"
  /\ attempt' = 1
  /\ calls' = 0
  /\ results' = <<>>
  /\ sleeps' = <<>>
  /\ lastError' = Undefined
  /\ thrown' = Undefined
  /\ returned' = 0
  /\ totalLength' = 0
  /\ progress' = NoProgress
  /\ written' = 0
  /\ UNCHANGED <<retries, retryDelay, wsOpen, tmpFile, pendingUnlinks>>

\* ensureDir(targetPath) returns; the temp path is chosen; downloadFile is
\* called with the default options
EnsureTargetOk ==
  /\ ppc = "start"
  /\ EnsureDirOk(Root)
  /\ tempZipPath' = TRUE
  /\ ppc' = "download"
  /\ op' = "download"
  /\ hpc' = "loop"
  /\ UNCHANGED <<retries, retryDelay, attempt, calls, results, sleeps, lastError, thrown,
                 returned>>
  /\ UNCHANGED <<pError, stageError, warned, files>>
  /\ UNCHANGED <<dlVars, zipVars>>
  /\ UNCHANGED <<valVars, uninstVars>>
  /\ UNCHANGED moreVars

\* ensureDir(targetPath) throws: control passes to the catch block
EnsureTargetFails ==
  /\ ppc = "start"
  /\ EnsureDirThrows(Root)
  /\ pError' = NamedErr("EnsureDirFailed", Root)
  /\ stageError' = pError'
  /\ ppc' = "catch"
  /\ UNCHANGED <<tempZipPath, warned, files>>
  /\ UNCHANGED <<retryVars, dlVars, zipVars>>
  /\ UNCHANGED <<valVars, uninstVars>>
  /\ UNCHANGED moreVars

\* as DownloadReturns, but without awaiting downloadFile: extractZip is called
\* while the response is still being piped
DownloadReturnsEarly ==
  /\ ppc = "download"
  /\ hpc = "streaming"
  /\ HttpFrameDropped
  /\ ppc' = "extract"
  /\ zpc' = "opening"
  /\ zPromise' = "pending"
  /\ UNCHANGED <<zError, cur, target, entriesRead, extractedCount, failedAt>>
  /\ UNCHANGED <<openReads, openWrites, entries, payloads>>
  /\ UNCHANGED <<tempZipPath, pError, stageError, warned>>
  /\ UNCHANGED fsVars
  /\ UNCHANGED <<valVars, uninstVars>>
  /\ UNCHANGED moreVars

\* downloadFile resolved: extractZip is called and yauzl.open is under way
DownloadReturns ==
  /\ ppc = "download"
  /\ hpc = "returned"
  /\ HttpFrameDropped
  /\ ppc' = "extract"
  /\ zpc' = "opening"
  /\ zPromise' = "pending"
  /\ UNCHANGED <<zError, cur, target, entriesRead, extractedCount, failedAt>>
  /\ UNCHANGED <<openReads, openWrites, entries, payloads>>
  /\ UNCHANGED <<tempZipPath, pError, stageError, warned>>
  /\ UNCHANGED fsVars
  /\ UNCHANGED <<valVars, uninstVars>>
  /\ UNCHANGED moreVars

\* downloadFile rejected: downloadWithProgress throws 'Failed to download
\* from <url>: ...'
DownloadThrows ==
  /\ ppc = "download"
  /\ hpc = "thrown"
  /\ pError' = NamedErr("DownloadFailed", <<>>)
  /\ stageError' = pError'
  /\ HttpFrameDropped
  /\ ppc' = "catch"
  /\ UNCHANGED <<tempZipPath, warned>>
  /\ UNCHANGED <<fsVars, zipVars>>
  /\ UNCHANGED <<valVars, uninstVars>>
  /\ UNCHANGED moreVars

\* extractZip resolved: the try block is complete
ExtractReturns ==
  /\ ppc = "extract"
  /\ zPromise = "resolved"
  /\ ppc' = "finally"
  /\ UNCHANGED <<tempZipPath, pError, stageError, warned>>
  /\ UNCHANGED <<retryVars, dlVars, fsVars, zipVars>>
  /\ UNCHANGED <<valVars, uninstVars>>
  /\ UNCHANGED moreVars

\* extractZip rejected: control passes to the catch block
ExtractThrows ==
  /\ ppc = "extract"
  /\ zPromise = "rejected"
  /\ pError' = zError
  /\ stageError' = zError
  /\ ppc' = "catch"
  /\ UNCHANGED <<tempZipPath, warned>>
  /\ UNCHANGED <<retryVars, dlVars, fsVars, zipVars>>
  /\ UNCHANGED <<valVars, uninstVars>>
  /\ UNCHANGED moreVars

\* catch block, exists(targetPath) is false: throw error
CatchNothingToRemove ==
  /\ ppc = "catch"
  /\ ~Exists(Root)
  /\ ppc' = "finally"
  /\ UNCHANGED <<tempZipPath, pError, stageError, warned>>
  /\ UNCHANGED <<retryVars, dlVars, fsVars, zipVars>>
  /\ UNCHANGED <<valVars, uninstVars>>
  /\ UNCHANGED moreVars

\* the catch block with removeDir left out
CatchKeepsTarget ==
  /\ ppc = "catch"
  /\ Exists(Root)
  /\ ppc' = "finally"
  /\ UNCHANGED <<tempZipPath, pError, stageError, warned>>
  /\ UNCHANGED <<retryVars, dlVars, fsVars, zipVars>>
  /\ UNCHANGED <<valVars, uninstVars>>
  /\ UNCHANGED moreVars

\* catch block: removeDir(targetPath) removes the tree (ensuredDirs is left
\* as it is); throw error
CatchRemoves ==
  /\ ppc = "catch"
  /\ Exists(Root)
  /\ dirs' = { d \in dirs : ~IsUnderRoot(d) }
  /\ files' = { f \in files : ~IsUnderRoot(f) }
  /\ ppc' = "finally"
  /\ UNCHANGED <<tempZipPath, pError, stageError, warned, ensuredDirs>>
  /\ UNCHANGED <<retryVars, dlVars, zipVars>>
  /\ UNCHANGED <<valVars, uninstVars>>
  /\ UNCHANGED moreVars

\* catch block: fs.remove rejects, removeDir throws 'Failed to remove
\* directory', which replaces the error in flight
CatchRemoveFails ==
  /\ ppc = "catch"
  /\ Exists(Root)
  /\ pError' = NamedErr("RemoveDirFailed", Root)
  /\ ppc' = "finally"
  /\ UNCHANGED <<tempZipPath, stageError, warned>>
  /\ UNCHANGED <<retryVars, dlVars, fsVars, zipVars>>
  /\ UNCHANGED <<valVars, uninstVars>>
  /\ UNCHANGED moreVars

\* how downloadAndExtract leaves: normally, or throwing the error in flight
Leave == ppc' = IF pError = NoError THEN "returned" ELSE "threw"

\* the finally block with the cleanup left out
FinallyForgetsTemp ==
  /\ ppc = "finally"
  /\ Leave
  /\ UNCHANGED <<tempZipPath, pError, stageError, warned>>
  /\ UNCHANGED <<retryVars, dlVars, fsVars, zipVars>>
  /\ UNCHANGED <<valVars, uninstVars>>
  /\ UNCHANGED moreVars

\* finally block: tempZipPath is null, or cleanupTemp finds no file or
\* removes it
FinallyCleanup ==
  /\ ppc = "finally"
  /\ tmpFile' = IF tempZipPath THEN Absent ELSE tmpFile
  /\ Leave
  /\ UNCHANGED <<tempZipPath, pError, stageError, warned>>
  /\ UNCHANGED <<totalLength, progress, written, wsOpen, pendingUnlinks>>
  /\ UNCHANGED <<retryVars, fsVars, zipVars>>
  /\ UNCHANGED <<valVars, uninstVars>>
  /\ UNCHANGED moreVars

\* finally block: fs.remove rejects inside cleanupTemp, which logs a warning
\* and returns
FinallyCleanupFails ==
  /\ ppc = "finally"
  /\ tempZipPath
  /\ tmpFile # Absent
  /\ warned' = TRUE
  /\ Leave
  /\ UNCHANGED <<tempZipPath, pError, stageError>>
  /\ UNCHANGED <<retryVars, dlVars, fsVars, zipVars>>
  /\ UNCHANGED <<valVars, uninstVars>>
  /\ UNCHANGED moreVars

NextPipe ==
  \/ EnsureTargetOk
  \/ EnsureTargetFails
  \/ DownloadReturns
  \/ DownloadThrows
  \/ ExtractReturns
  \/ ExtractThrows
  \/ CatchNothingToRemove
  \/ CatchRemoves
  \/ CatchRemoveFails
  \/ FinallyCleanup
  \/ FinallyCleanupFails

\* what may already be in the root directory when it exists
OldFiles == { Root \o <<SLASH, "a">> }

\* downloadAndExtract(Root, version) called on a new DownloadService; the
\* root directory may be there already, with or without content
Init ==
  /\ op = "none"
  /\ retries = DefaultRetries
  /\ retryDelay = DefaultRetryDelay
  /\ hpc = "idle"
  /\ HttpIdle
  /\ \/ dirs = {<<SLASH>>} /\ files = {}
     \/ dirs = {<<SLASH>>, Root} /\ files \in SUBSET OldFiles
  /\ ensuredDirs = {}
  /\ ZipIdle
  /\ ppc = "start"
  /\ tempZipPath = FALSE
  /\ pError = NoError
  /\ stageError = NoError
  /\ warned = FALSE
  /\ ValidateIdle
  /\ UninstallIdle
  /\ MoreIdle

\* the steps of executeWithRetry and of extractZip are enabled by hpc and zpc,
\* which downloadAndExtract sets when it calls them
Next ==
  \/ NextPipe
  \/ NextDownload
  \/ NextZip

Spec == Init /\ [][Next]_vars

\* ---------------------------------- DownloadService.validateDownload
\* yauzl.open can hand over an archive only when the file is there in full
FileComplete == tmpFile # Absent /\ tmpFile.len = BodyLen

\* validateDownload(filePath) is called on the file a settled downloadFile
\* call was given; unlinks that call started may still be outstanding
ValidateCall ==
  /\ vpc = "idle"
  /\ hpc \in {"returned", "thrown"}
  /\ vpc' = "exists"
  /\ UNCHANGED <<vResult, vWhy, vOpened, vClosed>>
  /\ UNCHANGED <<retryVars, dlVars, fsVars, zipVars, pipeVars, uninstVars>>
  /\ UNCHANGED moreVars

\* validateDownload settles: it returns value, reached on the branch why
ValidateReturns(value, why) ==
  /\ vResult' = value
  /\ vWhy' = why
  /\ vpc' = "done"

\* exists(filePath) is false: return false
ValidateMissing ==
  /\ vpc = "exists"
  /\ tmpFile = Absent
  /\ ValidateReturns("false", "missing")
  /\ UNCHANGED <<vOpened, vClosed>>
  /\ UNCHANGED <<retryVars, dlVars, fsVars, zipVars, pipeVars, uninstVars>>
  /\ UNCHANGED moreVars

\* exists(filePath) is true
ValidateExists ==
  /\ vpc = "exists"
  /\ tmpFile # Absent
  /\ vpc' = "stat"
  /\ UNCHANGED <<vResult, vWhy, vOpened, vClosed>>
  /\ UNCHANGED <<retryVars, dlVars, fsVars, zipVars, pipeVars, uninstVars>>
  /\ UNCHANGED moreVars

\* getFileStats throws with no try block around it: validateDownload rejects
ValidateStatUncaught ==
  /\ vpc = "stat"
  /\ tmpFile = Absent
  /\ ValidateReturns("threw", "statFailed")
  /\ UNCHANGED <<vOpened, vClosed>>
  /\ UNCHANGED <<retryVars, dlVars, fsVars, zipVars, pipeVars, uninstVars>>
  /\ UNCHANGED moreVars

\* getFileStats throws (the file is gone by now): catch, return false
ValidateStatThrows ==
  /\ vpc = "stat"
  /\ tmpFile = Absent
  /\ ValidateReturns("false", "statFailed")
  /\ UNCHANGED <<vOpened, vClosed>>
  /\ UNCHANGED <<retryVars, dlVars, fsVars, zipVars, pipeVars, uninstVars>>
  /\ UNCHANGED moreVars

\* stats.size === 0: return false
ValidateEmpty ==
  /\ vpc = "stat"
  /\ tmpFile # Absent
  /\ tmpFile.len = 0
  /\ ValidateReturns("false", "empty")
  /\ UNCHANGED <<vOpened, vClosed>>
  /\ UNCHANGED <<retryVars, dlVars, fsVars, zipVars, pipeVars, uninstVars>>
  /\ UNCHANGED moreVars

\* the size is not 0: the promise is returned and yauzl.open is under way
ValidateOpen ==
  /\ vpc = "stat"
  /\ tmpFile # Absent
  /\ tmpFile.len # 0
  /\ vpc' = "opening"
  /\ UNCHANGED <<vResult, vWhy, vOpened, vClosed>>
  /\ UNCHANGED <<retryVars, dlVars, fsVars, zipVars, pipeVars, uninstVars>>
  /\ UNCHANGED moreVars

\* yauzl.open calls back with an error or without a zipfile: resolve(false)
ValidateOpenFails ==
  /\ vpc = "opening"
  /\ ValidateReturns("false", "openFailed")
  /\ UNCHANGED <<vOpened, vClosed>>
  /\ UNCHANGED <<retryVars, dlVars, fsVars, zipVars, pipeVars, uninstVars>>
  /\ UNCHANGED moreVars

\* yauzl.open calls back with the zipfile: zipfile.close(); resolve(true)
ValidateOpened ==
  /\ vpc = "opening"
  /\ FileComplete
  /\ vOpened' = vOpened + 1
  /\ vClosed' = vClosed + 1
  /\ ValidateReturns("true", "opened")
  /\ UNCHANGED <<retryVars, dlVars, fsVars, zipVars, pipeVars, uninstVars>>
  /\ UNCHANGED moreVars

NextValidate ==
  \/ NextDownload
  \/ ValidateCall
  \/ ValidateMissing
  \/ ValidateExists
  \/ ValidateStatThrows
  \/ ValidateEmpty
  \/ ValidateOpen
  \/ ValidateOpenFails
  \/ ValidateOpened

\* downloadFile(url, filePath) with the default options, then validateDownload
InitValidate ==
  /\ InitRetry
  /\ op = "download"
  /\ retries = DefaultRetries
  /\ retryDelay = DefaultRetryDelay

SpecValidate == InitValidate /\ [][NextValidate]_vars

\* ---------------------------------------- PaymentsMCPInstaller.uninstall
\* PathUtils.getInstallationPaths: installDir is the directory that
\* performInstallation hands to downloadAndExtract
installDir == Root
packageJsonPath == PathJoin(installDir, <<"package.json">>)
electronDir == PathJoin(installDir, <<"node_modules", SLASH, "electron">>)

\* the paths cleanupFailedInstallation(projectPath) looks at
nodeModulesPath(projectPath) == PathJoin(projectPath, <<"node_modules">>)
packageLockPath(projectPath) == PathJoin(projectPath, <<"package-lock.json">>)

\* a file of the extracted application
appFilePath == PathJoin(installDir, <<"index.js">>)

\* VersionService.getInstallationStatus().isInstalled
IsInstalled == Exists(installDir) /\ Exists(packageJsonPath)

\* a boolean as the caller keeps it
Reported(b) == IF b THEN "true" ELSE "false"

\* q is p or lies below p
Under(p, q) == q = p \/ StartsWith(q, p \o <<SLASH>>)

\* fs.remove(p): p and everything below it is gone
RemoveTree(p) ==
  /\ dirs' = { d \in dirs : ~Under(p, d) }
  /\ files' = { f \in files : ~Under(p, f) }

\* what the install directory can hold when uninstall is called
InstalledDirs ==
  { {}, {nodeModulesPath(installDir)}, {nodeModulesPath(installDir), electronDir} }
InstalledFiles == SUBSET {packageJsonPath, packageLockPath(installDir), appFilePath}

\* getInstallationStatus returns; when nothing is installed uninstall logs
\* 'payments-mcp is not installed' and returns
UninstallStatus ==
  /\ upc = "start"
  /\ uInstalled' = Reported(IsInstalled)
  /\ IF IsInstalled
       THEN upc' = "nodeModules" /\ uOutcome' = uOutcome
       ELSE upc' = "done" /\ uOutcome' = "notInstalled"
  /\ UNCHANGED <<uRemoved, uWarned, uAfter>>
  /\ UNCHANGED <<retryVars, dlVars, fsVars, zipVars, pipeVars, valVars>>
  /\ UNCHANGED moreVars

\* cleanupFailedInstallation: node_modules does not exist
CleanupNodeModulesAbsent ==
  /\ upc = "nodeModules"
  /\ ~Exists(nodeModulesPath(installDir))
  /\ upc' = "packageLock"
  /\ UNCHANGED <<uInstalled, uRemoved, uWarned, uOutcome, uAfter>>
  /\ UNCHANGED <<retryVars, dlVars, fsVars, zipVars, pipeVars, valVars>>
  /\ UNCHANGED moreVars

\* cleanupFailedInstallation: removeDir(nodeModulesPath) removes the tree
CleanupNodeModulesRemoved ==
  /\ upc = "nodeModules"
  /\ Exists(nodeModulesPath(installDir))
  /\ RemoveTree(nodeModulesPath(installDir))
  /\ uRemoved' = uRemoved \cup {nodeModulesPath(installDir)}
  /\ upc' = "packageLock"
  /\ UNCHANGED <<uInstalled, uWarned, uOutcome, uAfter, ensuredDirs>>
  /\ UNCHANGED <<retryVars, dlVars, zipVars, pipeVars, valVars>>
  /\ UNCHANGED moreVars

\* cleanupFailedInstallation: removeDir(nodeModulesPath) throws; the catch
\* block logs 'Failed to cleanup installation' and the function returns
CleanupNodeModulesFails ==
  /\ upc = "nodeModules"
  /\ Exists(nodeModulesPath(installDir))
  /\ uWarned' = TRUE
  /\ upc' = "cleaned"
  /\ UNCHANGED <<uInstalled, uRemoved, uOutcome, uAfter>>
  /\ UNCHANGED <<retryVars, dlVars, fsVars, zipVars, pipeVars, valVars>>
  /\ UNCHANGED moreVars

\* cleanupFailedInstallation: package-lock.json does not exist
CleanupPackageLockAbsent ==
  /\ upc = "packageLock"
  /\ ~Exists(packageLockPath(installDir))
  /\ upc' = "cleaned"
  /\ UNCHANGED <<uInstalled, uRemoved, uWarned, uOutcome, uAfter>>
  /\ UNCHANGED <<retryVars, dlVars, fsVars, zipVars, pipeVars, valVars>>
  /\ UNCHANGED moreVars

\* cleanupFailedInstallation: removeDir(packageLockPath) removes the file
CleanupPackageLockRemoved ==
  /\ upc = "packageLock"
  /\ Exists(packageLockPath(installDir))
  /\ RemoveTree(packageLockPath(installDir))
  /\ uRemoved' = uRemoved \cup {packageLockPath(installDir)}
  /\ upc' = "cleaned"
  /\ UNCHANGED <<uInstalled, uWarned, uOutcome, uAfter, ensuredDirs>>
  /\ UNCHANGED <<retryVars, dlVars, zipVars, pipeVars, valVars>>
  /\ UNCHANGED moreVars

\* cleanupFailedInstallation: removeDir(packageLockPath) throws; warning
CleanupPackageLockFails ==
  /\ upc = "packageLock"
  /\ Exists(packageLockPath(installDir))
  /\ uWarned' = TRUE
  /\ upc' = "cleaned"
  /\ UNCHANGED <<uInstalled, uRemoved, uOutcome, uAfter>>
  /\ UNCHANGED <<retryVars, dlVars, fsVars, zipVars, pipeVars, valVars>>
  /\ UNCHANGED moreVars

\* cleanupFailedInstallation returned: 'Uninstallation completed'
UninstallCompletes ==
  /\ upc = "cleaned"
  /\ uOutcome' = "completed"
  /\ upc' = "done"
  /\ UNCHANGED <<uInstalled, uRemoved, uWarned, uAfter>>
  /\ UNCHANGED <<retryVars, dlVars, fsVars, zipVars, pipeVars, valVars>>
  /\ UNCHANGED moreVars

\* the getInstallationStatus call that follows uninstall
StatusAfter ==
  /\ upc = "done"
  /\ uAfter' = Reported(IsInstalled)
  /\ upc' = "checked"
  /\ UNCHANGED <<uInstalled, uRemoved, uWarned, uOutcome>>
  /\ UNCHANGED <<retryVars, dlVars, fsVars, zipVars, pipeVars, valVars>>
  /\ UNCHANGED moreVars

NextUninstall ==
  \/ UninstallStatus
  \/ CleanupNodeModulesAbsent
  \/ CleanupNodeModulesRemoved
  \/ CleanupNodeModulesFails
  \/ CleanupPackageLockAbsent
  \/ CleanupPackageLockRemoved
  \/ CleanupPackageLockFails
  \/ UninstallCompletes
  \/ StatusAfter

\* uninstall() called by the CLI's uninstall command on a new installer
InitUninstall ==
  /\ op = "none"
  /\ retries = DefaultRetries
  /\ retryDelay = DefaultRetryDelay
  /\ hpc = "idle"
  /\ HttpIdle
  /\ \/ dirs = {<<SLASH>>} /\ files = {}
     \/ /\ \E ds \in InstalledDirs : dirs = {<<SLASH>>, installDir} \cup ds
        /\ files \in InstalledFiles
  /\ ensuredDirs = {}
  /\ ZipIdle
  /\ PipeIdle
  /\ ValidateIdle
  /\ MoreIdle
  /\ upc = "start"
  /\ uInstalled = "none"
  /\ uRemoved = {}
  /\ uWarned = FALSE
  /\ uOutcome = "none"
  /\ uAfter = "none"

SpecUninstall == InitUninstall /\ [][NextUninstall]_vars

\* ---------------------------------------- ConfigService.autoConfigureFile
\* JSON.parse(fileContent) throws
ParseThrows(text) == text.kind # "json"

\* the statements after JSON.parse inside the inner try throw a TypeError:
\* reading a property of null; assigning a property of a number or string
\* (in strict mode)
InnerTypeError(value) == value.t \in {"null", "prim"}

\* the inner try block throws
InnerTryThrows(text) ==
  IF ParseThrows(text) THEN TRUE ELSE InnerTypeError(text.value)

\* the inner try block from an object or array: mcpServers is replaced by {}
\* when it is missing or not an object (a property put on an array is not
\* part of what JSON.stringify writes)
EnsureServers(value) ==
  IF value.t = "object" /\ value.servers.t \in {"missing", "prim"}
    THEN [value EXCEPT !.servers = [t |-> "map", m |-> <<>>]]
    ELSE value

\* m with the entry for name set to command
WithEntry(m, name, command) ==
  [n \in DOMAIN m \cup {name} |-> IF n = name THEN command ELSE m[n]]

\* mcpServers replaced by an object that holds the one entry
SetPaymentsEntryOnly(value) ==
  IF value.t = "object" /\ value.servers.t = "map"
    THEN [value EXCEPT !.servers.m = WithEntry(<<>>, "payments-mcp", NewCommand)]
    ELSE value

\* existingConfig.mcpServers['payments-mcp'] = paymentsMcpConfig, as far as
\* JSON.stringify shows it
SetPaymentsEntry(value) ==
  IF value.t = "object" /\ value.servers.t = "map"
    THEN [value EXCEPT !.servers.m = WithEntry(@, "payments-mcp", NewCommand)]
    ELSE value

\* the frame of every step of autoConfigureFile
ConfigFrame == UNCHANGED <<coreVars, instVars, execVars, fuVars>>

\* the call returns result
ConfigReturns(result) ==
  /\ cResult' = result
  /\ cpc' = "returned"

\* autoConfigureFile(mcpClient, installPath) is called
ConfigCall ==
  /\ cpc \in {"idle", "returned"}
  /\ cRuns < MaxRuns
  /\ cRuns' = cRuns + 1
  /\ cpc' = "start"
  /\ cBefore' = cfgFile
  /\ cPrevOk' = (cResult = "true")
  /\ cResult' = "none"
  /\ cRead' = NoFile
  /\ cValue' = NoValue
  /\ UNCHANGED <<cClient, cfgFile, cBackups>>
  /\ ConfigFrame

\* no config path, or a client without file-based auto-config: return false
ConfigUnsupported ==
  /\ cpc = "start"
  /\ cClient # "file"
  /\ ConfigReturns("false")
  /\ UNCHANGED <<cClient, cRuns, cfgFile, cBefore, cRead, cValue, cBackups, cPrevOk>>
  /\ ConfigFrame

\* fs.ensureDir(dirname(configPath)) and fs.pathExists(configPath) return
ConfigDirEnsured ==
  /\ cpc = "start"
  /\ cClient = "file"
  /\ cpc' = "exists"
  /\ UNCHANGED <<cClient, cRuns, cfgFile, cBefore, cRead, cValue, cBackups, cResult, cPrevOk>>
  /\ ConfigFrame

\* fs.ensureDir, fs.readFile, fs.copy or fs.writeFile rejects: the outer
\* catch block logs the error and returns false
ConfigIoFails ==
  /\ \/ cpc = "start" /\ cClient = "file"
     \/ cpc = "exists" /\ cfgFile # NoFile
     \/ cpc \in {"backup", "write"}
  /\ ConfigReturns("false")
  /\ UNCHANGED <<cClient, cRuns, cfgFile, cBefore, cRead, cValue, cBackups, cPrevOk>>
  /\ ConfigFrame

\* the config file does not exist: existingConfig holds the one entry
ConfigNoFile ==
  /\ cpc = "exists"
  /\ cfgFile = NoFile
  /\ cValue' = SetPaymentsEntry(EmptyConfig)
  /\ cpc' = "write"
  /\ UNCHANGED <<cClient, cRuns, cfgFile, cBefore, cRead, cBackups, cResult, cPrevOk>>
  /\ ConfigFrame

\* the config file exists: fs.readFile returns its content
ConfigRead ==
  /\ cpc = "exists"
  /\ cfgFile # NoFile
  /\ cRead' = cfgFile
  /\ cpc' = "parse"
  /\ UNCHANGED <<cClient, cRuns, cfgFile, cBefore, cValue, cBackups, cResult, cPrevOk>>
  /\ ConfigFrame

\* the inner try block completes; the entry is set
ConfigParsed ==
  /\ cpc = "parse"
  /\ ~InnerTryThrows(cRead)
  /\ cValue' = SetPaymentsEntry(EnsureServers(cRead.value))
  /\ cpc' = "write"
  /\ UNCHANGED <<cClient, cRuns, cfgFile, cBefore, cRead, cBackups, cResult, cPrevOk>>
  /\ ConfigFrame

\* the inner try block throws: the inner catch block is entered
ConfigMalformed ==
  /\ cpc = "parse"
  /\ InnerTryThrows(cRead)
  /\ cpc' = "backup"
  /\ UNCHANGED <<cClient, cRuns, cfgFile, cBefore, cRead, cValue, cBackups, cResult, cPrevOk>>
  /\ ConfigFrame

\* outside strict mode the assignment to a property of a number or string is
\* ignored, and setting the entry on the undefined mcpServers throws into the
\* outer catch block: return false
ConfigPrimitiveFails ==
  /\ cpc = "parse"
  /\ ~ParseThrows(cRead)
  /\ cRead.value.t = "prim"
  /\ ConfigReturns("false")
  /\ UNCHANGED <<cClient, cRuns, cfgFile, cBefore, cRead, cValue, cBackups, cPrevOk>>
  /\ ConfigFrame

\* the inner catch block without the copy
ConfigBackupSkipped ==
  /\ cpc = "backup"
  /\ cValue' = SetPaymentsEntry(EmptyConfig)
  /\ cpc' = "write"
  /\ UNCHANGED <<cClient, cRuns, cfgFile, cBefore, cRead, cBackups, cResult, cPrevOk>>
  /\ ConfigFrame

\* inner catch block: fs.copy(configPath, configPath.backup.<Date.now()>)
\* copies the file as it is now; existingConfig starts fresh; the entry is set
ConfigBackup ==
  /\ cpc = "backup"
  /\ \E now \in 1..MaxClock :
       cBackups' = [t \in DOMAIN cBackups \cup {now} |->
                      IF t = now THEN cfgFile ELSE cBackups[t]]
  /\ cValue' = SetPaymentsEntry(EmptyConfig)
  /\ cpc' = "write"
  /\ UNCHANGED <<cClient, cRuns, cfgFile, cBefore, cRead, cResult, cPrevOk>>
  /\ ConfigFrame

\* fs.writeFile(configPath, JSON.stringify(existingConfig, null, 2)); return
\* true
ConfigWrite ==
  /\ cpc = "write"
  /\ cfgFile' = Stringify(cValue)
  /\ ConfigReturns("true")
  /\ UNCHANGED <<cClient, cRuns, cBefore, cRead, cValue, cBackups, cPrevOk>>
  /\ ConfigFrame

NextConfig ==
  \/ ConfigCall
  \/ ConfigUnsupported
  \/ ConfigDirEnsured
  \/ ConfigIoFails
  \/ ConfigNoFile
  \/ ConfigRead
  \/ ConfigParsed
  \/ ConfigMalformed
  \/ ConfigPrimitiveFails
  \/ ConfigBackup
  \/ ConfigWrite

\* a new ConfigService, a client of any kind, any file at its config path
InitConfig ==
  /\ op = "none"
  /\ retries = DefaultRetries
  /\ retryDelay = DefaultRetryDelay
  /\ hpc = "idle"
  /\ HttpIdle
  /\ dirs = {<<SLASH>>}
  /\ files = {}
  /\ ensuredDirs = {}
  /\ ZipIdle
  /\ PipeIdle
  /\ ValidateIdle
  /\ UninstallIdle
  /\ cpc = "idle"
  /\ cClient \in {"file", "cli", "nopath"}
  /\ cRuns = 0
  /\ cfgFile \in ConfigFiles
  /\ cBefore = NoFile
  /\ cRead = NoFile
  /\ cValue = NoValue
  /\ cBackups = <<>>
  /\ cResult = "none"
  /\ cPrevOk = FALSE
  /\ InstallIdle
  /\ ExecIdle
  /\ FileUtilsIdle

SpecConfig == InitConfig /\ [][NextConfig]_vars

\* ---------------------------------------------------------------------------
\* PaymentsMCPInstaller.install
\* ---------------------------------------------------------------------------

InstallFrame == UNCHANGED <<coreVars, cfgVars, execVars, fuVars>>

\* VersionService.getLocalVersion: null unless package.json has a version.
LocalVersion(dir) ==
  IF dir.exists /\ dir.pkg \in Versions THEN dir.pkg ELSE NoVersion

\* VersionService.compareVersions on a valid remote version.
CompareVersions(local, remote) ==
  IF local = NoVersion THEN TRUE ELSE remote > local

\* VersionService.getVersionInfo; remote = NoVersion when the version API
\* could not be read.
GetVersionInfo(dir, remote) ==
  LET local == LocalVersion(dir) IN
    IF remote = NoVersion
      THEN IF local = NoVersion
             THEN [local |-> NoVersion, remote |-> Latest, needsUpdate |-> TRUE]
             ELSE [local |-> local, remote |-> local, needsUpdate |-> FALSE]
      ELSE [local |-> local, remote |-> remote,
            needsUpdate |-> CompareVersions(local, remote)]

\* PaymentsMCPInstaller.checkVersions.
CheckVersionsResult(dir, remote, force) ==
  LET info == GetVersionInfo(dir, remote) IN
    IF force THEN [info EXCEPT !.needsUpdate = TRUE] ELSE info

\* The directory after the archive was extracted into it; pkg is the version in
\* the archive's package.json (NoVersion: the archive has no package.json).
Extracted(dir, pkg) ==
  [dir EXCEPT !.exists = TRUE,
              !.pkg = IF pkg = NoVersion THEN dir.pkg ELSE pkg,
              !.app = TRUE]

\* The directory after a failed downloadAndExtract: its catch block removes the
\* directory, or fs.remove failed and what was there stays.
DownloadFailureDirs(dir, pkg) ==
  {NotInstalledDir}
    \cup (IF dir.exists THEN {dir} ELSE {})
    \cup {[dir EXCEPT !.exists = TRUE], Extracted(dir, pkg)}

\* The directory after cleanupFailedInstallation: node_modules and
\* package-lock.json removed, or a failed removal ended it early.
CleanupResults(dir) ==
  {[dir EXCEPT !.nm = "none", !.lock = FALSE]}
    \cup (IF dir.nm # "none" THEN {dir} ELSE {})
    \cup (IF dir.lock THEN {[dir EXCEPT !.nm = "none"]} ELSE {})

\* InstallService.verifyInstallation.
VerifyInstallation(dir) ==
  /\ dir.exists
  /\ dir.pkg \in Versions
  /\ dir.nm # "none"

InstallCall ==
  /\ ipc \in {"idle", "done"}
  /\ iRuns < MaxInstalls
  /\ \E force \in BOOLEAN : iForce' = force
  /\ iRuns' = iRuns + 1
  /\ iInfo' = NoInfo
  /\ iStartDir' = iDir
  /\ iCalls' = <<>>
  /\ iOutcome' = "none"
  /\ iError' = "none"
  /\ iReported' = "none"
  /\ iExtracted' = FALSE
  /\ iPrevFailed' = (iOutcome = "threw" /\ iExtracted)
  /\ ipc' = "versions"
  /\ UNCHANGED iDir
  /\ InstallFrame

CheckVersions ==
  /\ ipc = "versions"
  /\ \E remote \in Versions \cup {NoVersion} :
       iInfo' = CheckVersionsResult(iDir, remote, iForce)
  /\ ipc' = "preflight"
  /\ UNCHANGED <<iForce, iRuns, iDir, iStartDir, iCalls, iOutcome, iError, iReported,
                 iExtracted, iPrevFailed>>
  /\ InstallFrame

\* A throw inside the try block of install: the catch block is next.
InstallFails(error) ==
  /\ iError' = error
  /\ ipc' = "failure"
  /\ UNCHANGED <<iForce, iRuns, iInfo, iDir, iStartDir, iCalls, iOutcome, iReported,
                 iExtracted, iPrevFailed>>
  /\ InstallFrame

PreflightNodeMissing ==
  /\ ipc = "preflight"
  /\ InstallFails("node")

PreflightNpmMissing ==
  /\ ipc = "preflight"
  /\ InstallFails("npmMissing")

PreflightCancelled ==
  /\ ipc = "preflight"
  /\ InstallFails("cancelled")

PreflightPasses ==
  /\ ipc = "preflight"
  /\ ipc' = "decide"
  /\ UNCHANGED <<iForce, iRuns, iInfo, iDir, iStartDir, iCalls, iOutcome, iError,
                 iReported, iExtracted, iPrevFailed>>
  /\ InstallFrame

UpToDate ==
  /\ ipc = "decide"
  /\ ~iForce /\ ~iInfo.needsUpdate
  /\ iReported' = "uptodate"
  /\ iOutcome' = "returned"
  /\ ipc' = "done"
  /\ UNCHANGED <<iForce, iRuns, iInfo, iDir, iStartDir, iCalls, iError, iExtracted,
                 iPrevFailed>>
  /\ InstallFrame

\* The installation begun without looking at force and needsUpdate.
BeginAlways ==
  /\ ipc = "decide"
  /\ iCalls' = Append(iCalls, "performInstallation")
  /\ ipc' = "download"
  /\ UNCHANGED <<iForce, iRuns, iInfo, iDir, iStartDir, iOutcome, iError, iReported,
                 iExtracted, iPrevFailed>>
  /\ InstallFrame

BeginInstallation ==
  /\ ipc = "decide"
  /\ iForce \/ iInfo.needsUpdate
  /\ iCalls' = Append(iCalls, "performInstallation")
  /\ ipc' = "download"
  /\ UNCHANGED <<iForce, iRuns, iInfo, iDir, iStartDir, iOutcome, iError, iReported,
                 iExtracted, iPrevFailed>>
  /\ InstallFrame

\* A step of performInstallation that succeeded.
StepDone(step, dir, next) ==
  /\ iCalls' = Append(iCalls, step)
  /\ iDir' = dir
  /\ ipc' = next
  /\ UNCHANGED <<iForce, iRuns, iInfo, iStartDir, iOutcome, iError, iReported,
                 iPrevFailed>>
  /\ InstallFrame

\* A step of performInstallation that threw: the catch block is next.
StepFails(step, dir) ==
  /\ iCalls' = Append(iCalls, step)
  /\ iDir' = dir
  /\ iError' = step
  /\ ipc' = "cleanup"
  /\ UNCHANGED <<iForce, iRuns, iInfo, iStartDir, iOutcome, iReported, iExtracted,
                 iPrevFailed>>
  /\ InstallFrame

DownloadAndExtractSucceeds ==
  /\ ipc = "download"
  /\ \E pkg \in PackageStates :
       StepDone("downloadAndExtract", Extracted(iDir, pkg), "npm")
  /\ iExtracted' = TRUE

DownloadAndExtractFails ==
  /\ ipc = "download"
  /\ \E pkg \in PackageStates :
       \E dir \in DownloadFailureDirs(iDir, pkg) :
         StepFails("downloadAndExtract", dir)

NpmInstallNoPackage ==
  /\ ipc = "npm"
  /\ iDir.pkg = NoVersion
  /\ StepFails("runNpmInstall", iDir)

NpmInstallSucceeds ==
  /\ ipc = "npm"
  /\ iDir.pkg # NoVersion
  /\ \E m \in {"plain", "electron", "script"} :
       StepDone("runNpmInstall", [iDir EXCEPT !.nm = m, !.lock = TRUE], "electron")
  /\ UNCHANGED iExtracted

NpmInstallFails ==
  /\ ipc = "npm"
  /\ iDir.pkg # NoVersion
  /\ \E m \in {iDir.nm, "plain"} :
       StepFails("runNpmInstall", [iDir EXCEPT !.nm = m])

ElectronMissing ==
  /\ ipc = "electron"
  /\ iDir.nm \in {"none", "plain"}
  /\ StepFails("runElectronInstaller", iDir)

ElectronSkipped ==
  /\ ipc = "electron"
  /\ iDir.nm = "electron"
  /\ StepDone("runElectronInstaller", iDir, "verify")
  /\ UNCHANGED iExtracted

ElectronSucceeds ==
  /\ ipc = "electron"
  /\ iDir.nm = "script"
  /\ StepDone("runElectronInstaller", iDir, "verify")
  /\ UNCHANGED iExtracted

ElectronFails ==
  /\ ipc = "electron"
  /\ iDir.nm = "script"
  /\ StepFails("runElectronInstaller", iDir)

VerifyPasses ==
  /\ ipc = "verify"
  /\ VerifyInstallation(iDir)
  /\ StepDone("verifyInstallation", iDir, "post")
  /\ UNCHANGED iExtracted

\* A verification that returned false and is not turned into an error.
VerifyIgnored ==
  /\ ipc = "verify"
  /\ ~VerifyInstallation(iDir)
  /\ StepDone("verifyInstallation", iDir, "post")
  /\ UNCHANGED iExtracted

VerifyFails ==
  /\ ipc = "verify"
  /\ ~VerifyInstallation(iDir)
  /\ StepFails("verifyInstallation", iDir)

\* The catch block of performInstallation: clean up, then throw the error on.
PerformCleanup ==
  /\ ipc = "cleanup"
  /\ iCalls' = Append(iCalls, "cleanupFailedInstallation")
  /\ \E dir \in CleanupResults(iDir) : iDir' = dir
  /\ ipc' = "failure"
  /\ UNCHANGED <<iForce, iRuns, iInfo, iStartDir, iOutcome, iError, iReported,
                 iExtracted, iPrevFailed>>
  /\ InstallFrame

\* promptForMCPClient rejected (no terminal to ask on).
PromptRejected ==
  /\ ipc = "post"
  /\ InstallFails("prompt")

PostInstallCompletes ==
  /\ ipc = "post"
  /\ iCalls' = Append(iCalls, "postInstallSetup")
  /\ iReported' = "completed"
  /\ iOutcome' = "returned"
  /\ ipc' = "done"
  /\ UNCHANGED <<iForce, iRuns, iInfo, iDir, iStartDir, iError, iExtracted,
                 iPrevFailed>>
  /\ InstallFrame

\* The catch block of install: handleInstallationFailure, then throw.
HandleInstallationFailure ==
  /\ ipc = "failure"
  /\ iCalls' = Append(iCalls, "handleInstallationFailure")
  /\ \E dir \in CleanupResults(iDir) : iDir' = dir
  /\ iOutcome' = "threw"
  /\ ipc' = "done"
  /\ UNCHANGED <<iForce, iRuns, iInfo, iStartDir, iError, iReported, iExtracted,
                 iPrevFailed>>
  /\ InstallFrame

NextInstall ==
  \/ InstallCall
  \/ CheckVersions
  \/ PreflightNodeMissing
  \/ PreflightNpmMissing
  \/ PreflightCancelled
  \/ PreflightPasses
  \/ UpToDate
  \/ BeginInstallation
  \/ DownloadAndExtractSucceeds
  \/ DownloadAndExtractFails
  \/ NpmInstallNoPackage
  \/ NpmInstallSucceeds
  \/ NpmInstallFails
  \/ ElectronMissing
  \/ ElectronSkipped
  \/ ElectronSucceeds
  \/ ElectronFails
  \/ VerifyPasses
  \/ VerifyFails
  \/ PerformCleanup
  \/ PromptRejected
  \/ PostInstallCompletes
  \/ HandleInstallationFailure

InitInstall ==
  /\ op = "none"
  /\ retries = DefaultRetries
  /\ retryDelay = DefaultRetryDelay
  /\ hpc = "idle"
  /\ HttpIdle
  /\ dirs = {<<SLASH>>}
  /\ files = {}
  /\ ensuredDirs = {}
  /\ ZipIdle
  /\ PipeIdle
  /\ ValidateIdle
  /\ UninstallIdle
  /\ ConfigIdle
  /\ ipc = "idle"
  /\ iForce = FALSE
  /\ iRuns = 0
  /\ iInfo = NoInfo
  /\ iDir \in StartDirs
  /\ iStartDir = iDir
  /\ iCalls = <<>>
  /\ iOutcome = "none"
  /\ iError = "none"
  /\ iReported = "none"
  /\ iExtracted = FALSE
  /\ iPrevFailed = FALSE
  /\ ExecIdle
  /\ FileUtilsIdle

SpecInstall == InitInstall /\ [][NextInstall]_vars

\* ---------------------------------------------------------------------------
\* InstallService.executeCommand
\* ---------------------------------------------------------------------------

ExecFrame == UNCHANGED <<coreVars, cfgVars, instVars, fuVars>>

\* A settling that overrides an earlier one.
SettleAgain(state, why) ==
  xPromise' = state /\ xWhy' = why

\* resolve() and reject() of the promise: only the first call has an effect.
Settle(state, why) ==
  IF xPromise = "pending"
    THEN xPromise' = state /\ xWhy' = why
    ELSE UNCHANGED <<xPromise, xWhy>>

\* The first 'close' listener.
CloseSettles(code) ==
  IF code = 0 THEN Settle("resolved", "exit0") ELSE Settle("rejected", "exit")

\* spawn, the listeners and setTimeout run in one turn of the event loop.
ExecCall ==
  /\ xpc = "idle"
  /\ xpc' = "called"
  /\ xChild' = "running"
  /\ xTimer' = "armed"
  /\ xPromise' = "pending"
  /\ UNCHANGED <<xElapsed, xWhy, xSignals, xCode, xErrored, xStderr>>
  /\ ExecFrame

\* Time passes; an armed timer fires before time passes its delay.
ExecTick ==
  /\ xpc = "called"
  /\ xElapsed <= MaxTicks
  /\ xTimer = "armed" => xElapsed * TickMs < CommandTimeout
  /\ xElapsed' = xElapsed + 1
  /\ UNCHANGED <<xpc, xChild, xTimer, xPromise, xWhy, xSignals, xCode, xErrored, xStderr>>
  /\ ExecFrame

\* The setTimeout callback.
TimerFires ==
  /\ xpc = "called"
  /\ xTimer = "armed"
  /\ xElapsed * TickMs >= CommandTimeout
  /\ xTimer' = "fired"
  /\ xSignals' = Append(xSignals, "SIGTERM")
  /\ Settle("rejected", "timeout")
  /\ UNCHANGED <<xpc, xChild, xElapsed, xCode, xErrored, xStderr>>
  /\ ExecFrame

\* The 'data' listener of child.stderr.
StderrData ==
  /\ xpc = "called"
  /\ xChild = "running"
  /\ xStderr < MaxOutput
  /\ xStderr' = xStderr + 1
  /\ UNCHANGED <<xpc, xChild, xTimer, xElapsed, xPromise, xWhy, xSignals, xCode, xErrored>>
  /\ ExecFrame

\* The 'error' listener: the child could not be ended by child.kill.
KillError ==
  /\ xpc = "called"
  /\ xChild = "running"
  /\ xSignals # <<>>
  /\ ~xErrored
  /\ xErrored' = TRUE
  /\ Settle("rejected", "killError")
  /\ UNCHANGED <<xpc, xChild, xTimer, xElapsed, xSignals, xCode, xStderr>>
  /\ ExecFrame

\* The 'error' listener: the child could not be started.
SpawnError ==
  /\ xpc = "called"
  /\ xChild = "running"
  /\ xElapsed = 0
  /\ ~xErrored
  /\ xErrored' = TRUE
  /\ xChild' = "failed"
  /\ Settle("rejected", "spawnError")
  /\ UNCHANGED <<xpc, xTimer, xElapsed, xSignals, xCode, xStderr>>
  /\ ExecFrame

\* The two 'close' listeners, in the order they were added.
ChildCloses ==
  /\ xpc = "called"
  /\ xChild \in {"running", "failed"}
  /\ \E code \in (IF xChild = "failed" THEN {SpawnFailedCode} ELSE ExitCodes) :
       /\ xCode' = code
       /\ CloseSettles(code)
  /\ xChild' = "closed"
  /\ xTimer' = IF xTimer = "armed" THEN "cleared" ELSE xTimer
  /\ UNCHANGED <<xpc, xElapsed, xSignals, xErrored, xStderr>>
  /\ ExecFrame

NextExec ==
  \/ ExecCall
  \/ ExecTick
  \/ TimerFires
  \/ StderrData
  \/ KillError
  \/ SpawnError
  \/ ChildCloses

InitExec ==
  /\ op = "none"
  /\ retries = DefaultRetries
  /\ retryDelay = DefaultRetryDelay
  /\ hpc = "idle"
  /\ HttpIdle
  /\ dirs = {<<SLASH>>}
  /\ files = {}
  /\ ensuredDirs = {}
  /\ ZipIdle
  /\ PipeIdle
  /\ ValidateIdle
  /\ UninstallIdle
  /\ ConfigIdle
  /\ InstallIdle
  /\ ExecIdle
  /\ FileUtilsIdle

SpecExec == InitExec /\ [][NextExec]_vars

\* ---------------------------------------------------------------------------
\* FileUtils: ensureDir and removeDir called in any order on one instance
\* ---------------------------------------------------------------------------

FileUtilsFrame ==
  UNCHANGED <<retryVars, dlVars, zipVars, pipeVars, valVars, uninstVars, cfgVars,
              instVars, execVars>>

\* The paths the calls are made with; OtherPath may be a regular file.
OtherPath == <<SLASH, "t">>
FsPaths == {Root, Root \o <<SLASH, "a">>, OtherPath}

FsCalled(name, dirPath, result) ==
  /\ fCalls < MaxFsCalls
  /\ fCalls' = fCalls + 1
  /\ fLast' = [op |-> name, path |-> dirPath, result |-> result]
  /\ FileUtilsFrame

FsEnsureDirReturns ==
  \E dirPath \in FsPaths :
    /\ EnsureDirOk(dirPath)
    /\ UNCHANGED files
    /\ FsCalled("ensureDir", dirPath, "returned")

FsEnsureDirThrows ==
  \E dirPath \in FsPaths :
    /\ EnsureDirThrows(dirPath)
    /\ UNCHANGED files
    /\ FsCalled("ensureDir", dirPath, "threw")

\* removeDir(dirPath): fs.remove when the path exists; ensuredDirs is not touched.
FsRemoveDirReturns ==
  \E dirPath \in FsPaths :
    /\ IF Exists(dirPath) THEN RemoveTree(dirPath) ELSE UNCHANGED <<dirs, files>>
    /\ UNCHANGED ensuredDirs
    /\ FsCalled("removeDir", dirPath, "returned")

FsRemoveDirThrows ==
  \E dirPath \in FsPaths :
    /\ Exists(dirPath)
    /\ UNCHANGED <<dirs, files, ensuredDirs>>
    /\ FsCalled("removeDir", dirPath, "threw")

NextFileUtils ==
  \/ FsEnsureDirReturns
  \/ FsEnsureDirThrows
  \/ FsRemoveDirReturns
  \/ FsRemoveDirThrows

InitFileUtils ==
  /\ op = "none"
  /\ retries = DefaultRetries
  /\ retryDelay = DefaultRetryDelay
  /\ hpc = "idle"
  /\ HttpIdle
  /\ dirs = {<<SLASH>>}
  /\ files \in {{}, {OtherPath}}
  /\ ensuredDirs = {}
  /\ ZipIdle
  /\ PipeIdle
  /\ ValidateIdle
  /\ UninstallIdle
  /\ ConfigIdle
  /\ InstallIdle
  /\ ExecIdle
  /\ FileUtilsIdle

SpecFileUtils == InitFileUtils /\ [][NextFileUtils]_vars

\* ======================================================================
\* Properties
\* ======================================================================

C2_WritesStayUnderRoot ==
  /\ \A d \in dirs : d = <<SLASH>> \/ IsUnderRoot(d)
  /\ \A f \in files : IsUnderRoot(f)
  /\ zpc \in {"openingStream", "piping"} => IsUnderRoot(target)

\* a traversal name was delivered and its file was written, inside the root
C2_Witness ==
  /\ cur = <<DOT, DOT, SLASH, "r", "a">>
  /\ zpc = "piping"
  /\ (Root \o <<SLASH, "r", "a">>) \in files

C4_ReturnsFirstSuccess ==
  /\ \A i \in 1..Len(results) :
       results[i] = "ok" =>
         /\ i = Len(results)
         /\ calls = i
         /\ hpc = "returned"
         /\ returned = i
         /\ i <= retries
  /\ hpc = "returned" => Len(results) = calls /\ results[calls] = "ok"

\* two failures, then success on the third attempt
C4_Witness ==
  /\ hpc = "returned"
  /\ returned = 3
  /\ results = <<"network", "network", "ok">>

C8_FailureStopsExtraction ==
  failedAt # 0 =>
    /\ zPromise = "rejected"
    /\ zpc = "closed"
    /\ entriesRead = failedAt
    /\ extractedCount = failedAt - 1

\* the second entry failed on an unsafe path after the first was extracted
C8_Witness ==
  /\ failedAt = 2
  /\ extractedCount = 1
  /\ zError.kind = "UnsafePath"
  /\ zPromise = "rejected"

\* C9: when the error of an attempt that failed mid-stream has reached the
\* retry loop the file is deleted and no deletion is outstanding; an attempt
\* starts with no file at the path; no deletion is outstanding while a later
\* attempt streams.
C9_PartialFileDeletedBeforeRetry ==
  /\ (hpc \in {"sleeping", "thrown"} /\ lastError.kind \in {"stream", "filesystem"}) =>
       (tmpFile = Absent /\ pendingUnlinks = 0)
  /\ hpc = "request" => tmpFile = Absent
  /\ hpc = "streaming" => pendingUnlinks = 0

\* C10: when downloadFile has resolved, the file is there and holds the whole
\* body of the attempt that succeeded.
C10_ResolvedFileComplete ==
  (op = "download" /\ hpc = "returned") =>
    tmpFile = [att |-> returned, len |-> BodyLen]

\* C11: a failure to open or write the destination file ends downloadFile
\* after that one attempt: its error is thrown and no further attempt is made.
C11_FilesystemErrorNotRetried ==
  \A i \in 1..Len(results) :
    results[i] = "filesystem" =>
      /\ calls = i
      /\ hpc = "thrown"
      /\ thrown = Err("filesystem", i)

\* C12: an HTTP 4xx response ends get, head and downloadFile after that one
\* attempt, while a network error or an HTTP 5xx response on an attempt that
\* is not the last is followed by a wait and another attempt.
C12_ClientErrorNotRetried ==
  \A i \in 1..Len(results) :
    /\ results[i] = "http4xx" =>
         (calls = i /\ hpc = "thrown" /\ thrown = Err("http4xx", i))
    /\ (results[i] \in {"network", "http5xx"} /\ i < retries) =>
         (Len(sleeps) >= i /\ (calls > i \/ hpc \in {"sleeping", "loop"}))

\* C13: entries are extracted one at a time: whenever the next entry has been
\* requested, every entry delivered so far has finished and no entry stream is
\* open; at no moment is more than one read stream or more than one write
\* stream open.
C13_OneEntryAtATime ==
  /\ openReads \in 0..1
  /\ openWrites \in 0..1
  /\ zpc = "reading" =>
       (openReads = 0 /\ openWrites = 0 /\ extractedCount = entriesRead)
  /\ zpc \in {"openingStream", "piping"} => extractedCount = entriesRead - 1

\* the second entry of an archive is being piped into its file
C13_Witness ==
  /\ zpc = "piping"
  /\ entriesRead = 2
  /\ openReads = 1
  /\ openWrites = 1

\* C14: in downloadAndExtract the archive is opened only once downloadFile has
\* resolved; downloadFile resolves only on the 'finish' of its write stream,
\* with the whole body piped; and when the transfer fails the archive is never
\* opened.
C14_ExtractAfterTransfer ==
  /\ [](stageError.kind = "DownloadFailed" => (zpc = "idle" /\ zPromise = "none"))
  /\ [][(zpc = "idle" /\ zpc' # "idle") =>
          (hpc = "returned" /\ ~wsOpen /\ written = BodyLen /\ returned = attempt)]_vars
  /\ [][(op = "download" /\ hpc # "returned" /\ hpc' = "returned") =>
          (wsOpen /\ ~wsOpen' /\ written = BodyLen)]_vars

\* the archive has been opened after a transfer that needed a second attempt
C14_Witness ==
  /\ ppc = "extract"
  /\ zpc = "reading"
  /\ tmpFile.att = 2

\* C15: whenever extractEntry creates the write stream of a file entry, the
\* parent directory of the file exists.
C15_ParentExistsBeforeWrite ==
  [][(/\ zpc = "openingStream"
      /\ \/ zpc' = "piping"
         \/ zpc' = "closed" /\ zError'.kind = "WriteFailed")
     => Dirname(target) \in dirs']_vars

\* C16: when an accepted entry whose name ends with '/' is delivered, either
\* creating its directory fails and extraction fails with that error, or the
\* directory exists under the root afterwards, no stream has been opened, no
\* file has been written and the next entry is requested.
C16_DirectoryMarker ==
  [][(/\ zpc = "reading"
      /\ entriesRead' = entriesRead + 1
      /\ IsDirectoryEntry(cur')
      /\ ~EntryRejected(Root, cur'))
     => \/ zpc' = "closed" /\ zError'.kind = "EnsureDirFailed"
        \/ /\ zpc' = "reading"
           /\ extractedCount' = extractedCount + 1
           /\ IsUnderRoot(target')
           /\ target' \in dirs'
           /\ target' \notin files'
           /\ files' = files
           /\ payloads' = payloads
           /\ openReads' = 0
           /\ openWrites' = 0]_vars

\* C17: after a successful extraction of an archive without unsafe names, the
\* regular files under the root are as many as the file entries, every file
\* entry's path is a file that holds that entry's payload in full, and every
\* directory entry's path and every directory above a file entry's path exists.
C17_ExtractionComplete ==
  (zPromise = "resolved" /\ \A i \in 1..Len(entries) : ~entries[i].unsafe) =>
    LET fileEntries == { i \in 1..Len(entries) : ~entries[i].dir }
        dirEntries == { i \in 1..Len(entries) : entries[i].dir }
    IN  /\ Cardinality({ f \in files : IsUnderRoot(f) }) = Cardinality(fileEntries)
        /\ \A i \in fileEntries :
             /\ entries[i].path \in files
             /\ [path |-> entries[i].path, entry |-> i, complete |-> TRUE] \in payloads
             /\ AncestorsAndSelf(Dirname(entries[i].path)) \subseteq dirs
        /\ \A i \in dirEntries : AncestorsAndSelf(entries[i].path) \subseteq dirs

\* C18: every event passed to onProgress has a percent within 0..100 and
\* transferred <= total.
C18_ProgressWithinBounds ==
  progress.sent =>
    /\ progress.percent \in 0..100
    /\ progress.transferred <= progress.total

\* C19: validateDownload never throws; it returns false when the file is
\* missing, is empty or cannot be opened as an archive, returns true only when
\* the archive opened, and has closed every archive it opened.
C19_ValidateNeverThrows ==
  /\ vResult # "threw"
  /\ vpc = "done" =>
       /\ vResult \in {"true", "false"}
       /\ vWhy \in {"missing", "statFailed", "empty", "openFailed"} => vResult = "false"
       /\ vResult = "true" <=> vOpened = 1
       /\ vClosed = vOpened
  /\ vOpened \in 0..1
  /\ vClosed <= vOpened

\* the file vanished between the existence test and the size test, and the
\* call returned false
C19_Witness ==
  /\ vpc = "done"
  /\ vWhy = "statFailed"
  /\ vResult = "false"

\* C20: after uninstall() has completed on an installed system, the
\* getInstallationStatus call that follows reports isInstalled = false.
C20_UninstallRemoves ==
  (upc = "checked" /\ uInstalled = "true" /\ uOutcome = "completed") => uAfter = "false"

\* a config file that holds a JSON object whose mcpServers, when it is there
\* and is an object, is a map of server entries
WellFormedConfig(text) ==
  /\ text.kind = "json"
  /\ text.value.t = "object"
  /\ text.value.servers.t # "array"

\* the server entries of a well-formed config file
ServersOf(text) ==
  IF text.value.servers.t = "map" THEN text.value.servers.m ELSE <<>>

\* C21: when autoConfigureFile returns true on an existing well-formed config
\* file, the file holds every other server entry it held, unchanged, the
\* 'payments-mcp' entry with the new command and nothing else new; and a call
\* that follows a successful call and succeeds leaves the file as it was.
C21_MergeKeepsOtherServers ==
  (cpc = "returned" /\ cResult = "true") =>
    /\ WellFormedConfig(cBefore) =>
         /\ WellFormedConfig(cfgFile)
         /\ cfgFile.value.extra = cBefore.value.extra
         /\ DOMAIN ServersOf(cfgFile) = DOMAIN ServersOf(cBefore) \cup {"payments-mcp"}
         /\ ServersOf(cfgFile)["payments-mcp"] = NewCommand
         /\ \A n \in DOMAIN ServersOf(cBefore) \ {"payments-mcp"} :
              ServersOf(cfgFile)[n] = ServersOf(cBefore)[n]
    /\ cPrevOk => cfgFile = cBefore

\* a second successful call on a file that held another server and an old
\* 'payments-mcp' entry before the first call
C21_Witness ==
  /\ cpc = "returned"
  /\ cResult = "true"
  /\ cRuns = 2
  /\ cPrevOk
  /\ WellFormedConfig(cfgFile)
  /\ DOMAIN ServersOf(cfgFile) = ServerNames
  /\ ServersOf(cfgFile)["other"] = "x"

\* C22: the config file that cannot be parsed is overwritten only when a
\* '.backup.<timestamp>' file already holds its content, and after a call
\* that returned true on such a file a backup holds the content it had.
C22_BackupBeforeOverwrite ==
  /\ []((/\ cpc = "returned"
         /\ cResult = "true"
         /\ cBefore # NoFile
         /\ InnerTryThrows(cBefore))
        => \E t \in DOMAIN cBackups : cBackups[t] = cBefore)
  /\ [][(cfgFile' # cfgFile /\ cfgFile # NoFile /\ InnerTryThrows(cfgFile))
         => \E t \in DOMAIN cBackups : cBackups[t] = cfgFile]_vars

\* a file that is not JSON has been backed up and replaced by a config that
\* holds the one entry
C22_Witness ==
  /\ cpc = "returned"
  /\ cResult = "true"
  /\ cBefore = Garbage
  /\ cfgFile = Stringify(SetPaymentsEntry(EmptyConfig))
  /\ \E t \in DOMAIN cBackups : cBackups[t] = Garbage

\* The steps of install() that download, install or configure.
InstallSteps ==
  {"downloadAndExtract", "runNpmInstall", "runElectronInstaller", "verifyInstallation",
   "postInstallSetup"}
Called(step) == \E i \in 1..Len(iCalls) : iCalls[i] = step
PreflightErrors == {"node", "npmMissing", "cancelled"}

C24_CommandSettlesOnce ==
  /\ []((xpc = "called" /\ xElapsed * TickMs > CommandTimeout) =>
          xPromise \in {"resolved", "rejected"})
  /\ [](xPromise = "resolved" => (xCode = 0 /\ xTimer = "cleared"))
  /\ []((xCode \notin {NoCode, 0} \/ xErrored \/ xTimer = "fired") =>
          xPromise = "rejected")
  /\ [][(xTimer' = "fired" /\ xTimer # "fired") =>
          xSignals' = Append(xSignals, "SIGTERM")]_vars
  /\ [][(xPromise \in {"resolved", "rejected"}) =>
          (xPromise' = xPromise /\ xWhy' = xWhy)]_vars

C24_Witness ==
  /\ xPromise = "rejected"
  /\ xWhy = "timeout"
  /\ xSignals = <<"SIGTERM">>
  /\ xChild = "closed"
  /\ xCode = 0

\* The steps of performInstallation in the order of its try block.
PerformOrder ==
  <<"downloadAndExtract", "runNpmInstall", "runElectronInstaller", "verifyInstallation">>
IsPerformStep(call) == \E i \in 1..Len(PerformOrder) : PerformOrder[i] = call
StepsRun == SelectSeq(iCalls, IsPerformStep)

\* C25: the steps performInstallation has run are a prefix of download-and-extract,
\* npm install, electron installer, verification; a step is started only while no
\* step has failed; the install path is returned only after all four steps with a
\* verification that returned true; the error thrown on is the one of the last
\* step run, and it is thrown on, unchanged, after cleanupFailedInstallation.
C25_StepsInOrder ==
  /\ [](/\ Len(StepsRun) <= Len(PerformOrder)
        /\ StepsRun = SubSeq(PerformOrder, 1, Len(StepsRun))
        /\ ipc \in {"download", "npm", "electron", "verify"} => iError = "none"
        /\ ipc = "post" => (StepsRun = PerformOrder /\ VerifyInstallation(iDir))
        /\ IsPerformStep(iError) =>
             (StepsRun # <<>> /\ iError = StepsRun[Len(StepsRun)])
        /\ (ipc = "failure" /\ IsPerformStep(iError)) =>
             iCalls[Len(iCalls)] = "cleanupFailedInstallation")
  /\ [][ipc = "cleanup" =>
          (ipc' = "failure" /\ iError' = iError
             /\ iCalls' = Append(iCalls, "cleanupFailedInstallation"))]_vars

C25_Witness ==
  /\ ipc = "failure"
  /\ iError = "runElectronInstaller"
  /\ iCalls = <<"performInstallation", "downloadAndExtract", "runNpmInstall",
                "runElectronInstaller", "cleanupFailedInstallation">>

\* C26: an install() without force that follows an install() which failed after
\* its extraction had succeeded does not report 'already up to date'; once its
\* pre-flight checks have passed it downloads and installs again.
C26_FailedInstallNotTakenForSuccess ==
  (iPrevFailed /\ ~iForce) =>
    /\ iReported # "uptodate"
    /\ (ipc = "done" /\ iError \notin PreflightErrors) => Called("downloadAndExtract")

\* C28: an install() that threw before performInstallation began has left the
\* install directory as it was when the call started.
C28_EarlyFailureLeavesInstallation ==
  (ipc = "done" /\ iOutcome = "threw" /\ ~Called("performInstallation")) =>
    iDir = iStartDir

\* C27: whenever the last call on the FileUtils instance was an ensureDir that
\* returned without error, the directory it was called with exists.
C27_EnsuredDirExists ==
  (fLast.op = "ensureDir" /\ fLast.result = "returned") => fLast.path \in dirs

\* C29: whatever retries value was passed, a call of executeWithRetry that has
\* ended has invoked the operation at least once, and what it threw is the error
\* of one of its attempts, never undefined.
C29_AtLeastOneAttempt ==
  hpc \in {"thrown", "returned"} =>
    /\ calls >= 1
    /\ hpc = "thrown" =>
         /\ thrown # Undefined
         /\ thrown.att \in 1..calls
         /\ results[thrown.att] = thrown.kind

\* C30: with an archive of finitely many entries whose streams all finish or
\* fail, a pending extractZip is eventually resolved or rejected, and once it is
\* settled it stays as it is: it is not resolved after it was rejected.
C30_ExtractSettles ==
  /\ (zPromise = "pending") ~> (zPromise \in {"resolved", "rejected"})
  /\ [][(zPromise \in {"resolved", "rejected"}) => zPromise' = zPromise]_vars

C30_Witness ==
  /\ zPromise = "rejected"
  /\ zError.kind = "ReadFailed"
  /\ extractedCount >= 1
  /\ zpc = "closed"

====
